---------------------------- MODULE AgentDriver ----------------------------
(***************************************************************************)
(* guestDriver (site/js/agent.js): commands typed into the guest's console *)
(* by code, each between two lines the guest prints itself, and read back  *)
(* from the capped transcript watchConsole (site/js/boot.js) keeps.        *)
(*                                                                         *)
(* One console serves any number of runs at a time, and a reader who types *)
(* beside them, whole lines or part of one: what is sent next then joins   *)
(* it.  The guest's tty echoes a line when it arrives; the shell takes     *)
(* lines one after the other; a command may read a line that was meant for *)
(* the shell, and may leave a job behind that prints when the command is   *)
(* over.  Text is a sequence of lines.                                     *)
(***************************************************************************)
EXTENDS Naturals, Sequences, SequencesExt, FiniteSetsExt

CONSTANTS
  MaxRuns,          \* bound: calls of run()
  MaxTyped,         \* bound: what the reader types beside them
  MaxOutput,        \* bound: lines one command prints
  MaxAside,         \* bound: lines printed from the background
  TranscriptLimit,  \* TRANSCRIPT_LIMIT, in lines
  Status,           \* exit statuses
  NoStatus          \* null

ASSUME DriverAssumption ==
  /\ MaxRuns \in Nat /\ MaxTyped \in Nat /\ MaxOutput \in Nat
  /\ MaxAside \in Nat
  /\ TranscriptLimit \in Nat \ {0}
  /\ Status \subseteq Nat /\ NoStatus \notin Status

Run == 1 .. MaxRuns

Reader == 0  \* whose lines have no fences

VARIABLES
  runs,        \* guestDriver's counter
  run,         \* what each call of run() is up to
  answer,      \* what it resolved with when it had a status
  typed,       \* what the reader has typed so far
  half,        \* part of a line is typed that has no end yet
  joined,      \* the runs whose line joined part of another
  wire,        \* lines sent that have not reached the guest's tty
  tty,         \* lines echoed that nobody has read
  shell,       \* whose line the shell is at, and where in it
  aside,       \* lines printed beside the shell's command
  transcript,  \* watchConsole's transcript
  log,         \* history: everything the guest has written
  exit         \* history: the status each run's command ended with

page  == <<runs, run, answer, typed, half, joined>>
vars  == <<runs, run, answer, typed, half, joined,
           wire, tty, shell, aside, transcript, log, exit>>

\* What the guest writes, line by line.  A `spoilt` line is what comes of an
\* opening fence that part of another line stands before, an `ending` one a
\* closing fence of which only a part has arrived; an `aside` line is not the
\* shell's nor of its command.
Kind == {"echo", "go", "spoilt", "out", "aside", "ending", "end"}
Line == [kind : Kind, of : Run \cup {Reader}, n : Nat]

Printed(kind, of, n) == [kind |-> kind, of |-> of, n |-> n]

Idle == [of |-> Reader, at |-> "prompt", n |-> 0]

-----------------------------------------------------------------------------
(***************************************************************************)
(* The console and what is read from it.                                   *)
(***************************************************************************)
\* The end of the transcript is what is kept.
Hold(said) ==
  IF Len(said) > TranscriptLimit THEN Tail(said) ELSE said

Says(line) ==
  /\ transcript' = Hold(Append(transcript, line))
  /\ log' = Append(log, line)

\* The rest of a closing line replaces the part that had arrived.
SaysRest(line) ==
  /\ transcript' = Append(Front(transcript), line)
  /\ log' = Append(Front(log), line)

\* Each run's marker ends in its number.
Marker(r) == r

At(said, kind, r) ==
  {i \in DOMAIN said : said[i].kind = kind /\ said[i].of = Marker(r)}

\* Mutant: a closing line that is still arriving counts.
CompletionEarly(said, r) == At(said, "end", r) \cup At(said, "ending", r)

\* Where the closing lines of a run stand.
Completion(said, r) == At(said, "end", r)

Body(said, r) ==
  IF Completion(said, r) = {} THEN said
  ELSE SubSeq(said, 1, Max(Completion(said, r)) - 1)

\* Mutants: the opening fence is not looked for; the output is taken to begin
\* behind the last echo.
OutputUnfenced(said, r) == Body(said, r)

OutputBehindEcho(said, r) ==
  LET body == Body(said, r)
      echoes == {i \in DOMAIN body : body[i].kind \in {"echo", "go"}}
  IN  IF echoes = {} THEN body ELSE SubSeq(body, Max(echoes) + 1, Len(body))

\* What lies between the fences; from the first line held when the opening
\* one is not there, to the last when the closing one is not.
OutputOf(said, r) ==
  LET body == Body(said, r)
      start == At(body, "go", r)
  IN  IF start = {} THEN body ELSE SubSeq(body, Min(start) + 1, Len(body))

-----------------------------------------------------------------------------
(***************************************************************************)
(* The page.                                                               *)
(***************************************************************************)
\* run(): the fenced command is sent.
Ask ==
  /\ runs < MaxRuns
  /\ runs' = runs + 1
  /\ run' = [run EXCEPT ![runs + 1] = "waiting"]
  /\ wire' = Append(wire, runs + 1)
  /\ joined' = IF half THEN joined \cup {runs + 1} ELSE joined
  /\ half' = FALSE
  /\ UNCHANGED <<answer, typed, tty, shell, aside, transcript, log, exit>>

\* A poll finds the closing line.
Resolve(r) ==
  /\ run[r] = "waiting" /\ Completion(transcript, r) # {}
  /\ run' = [run EXCEPT ![r] = "done"]
  /\ answer' = [answer EXCEPT ![r] =
       [status |-> transcript[Max(Completion(transcript, r))].n,
        output |-> OutputOf(transcript, r)]]
  /\ UNCHANGED <<runs, typed, half, joined, wire, tty, shell, aside, transcript, log, exit>>

\* Mutant: the time a command has begins when it is seen to start.
TimeOutOnceBegun(r) ==
  /\ run[r] = "waiting" /\ Completion(transcript, r) = {}
  /\ At(transcript, "go", r) # {}
  /\ run' = [run EXCEPT ![r] = "late"]
  /\ UNCHANGED <<runs, answer, typed, half, joined, wire, tty, shell, aside, transcript, log, exit>>

\* A poll does not find it and the deadline, which is the caller's to choose,
\* has passed.  The caller is told so, and what the console holds by then.
TimeOut(r) ==
  /\ run[r] = "waiting" /\ Completion(transcript, r) = {}
  /\ run' = [run EXCEPT ![r] = "late"]
  /\ UNCHANGED <<runs, answer, typed, half, joined, wire, tty, shell, aside, transcript, log, exit>>

\* The reader types a line, or ends one; so may a caller of type().
Type ==
  /\ typed < MaxTyped
  /\ typed' = typed + 1
  /\ half' = FALSE
  /\ wire' = Append(wire, Reader)
  /\ UNCHANGED <<runs, run, answer, joined, tty, shell, aside, transcript, log, exit>>

\* Or part of one.
TypeHalf ==
  /\ typed < MaxTyped /\ ~half
  /\ typed' = typed + 1
  /\ half' = TRUE
  /\ UNCHANGED <<runs, run, answer, joined, wire, tty, shell, aside, transcript, log, exit>>

-----------------------------------------------------------------------------
(***************************************************************************)
(* The guest: its tty, its shell, the command that runs.                   *)
(***************************************************************************)
\* A line reaches the tty and is echoed.  The guest writes a fence in one
\* piece: only what the page has received of it can be a part.
Arrive ==
  /\ wire # << >>
  /\ shell.at # "closing"
  /\ tty' = Append(tty, Head(wire))
  /\ wire' = Tail(wire)
  /\ Says(Printed("echo", Head(wire), 0))
  /\ UNCHANGED <<page, shell, aside, exit>>

\* The shell takes the next line; a run's begins with its opening fence.
Begin ==
  /\ shell.at = "prompt" /\ tty # << >>
  /\ tty' = Tail(tty)
  /\ shell' = [of |-> Head(tty), at |-> "command", n |-> 0]
  /\ IF Head(tty) = Reader
     THEN UNCHANGED <<transcript, log>>
     ELSE Says(Printed("go", Marker(Head(tty)), 0))
  /\ UNCHANGED <<page, wire, aside, exit>>

\* Behind part of another line the opening fence may be lost to it, and the
\* rest of the line runs.
BeginSpoilt ==
  /\ shell.at = "prompt" /\ tty # << >> /\ Head(tty) \in joined
  /\ tty' = Tail(tty)
  /\ shell' = [of |-> Head(tty), at |-> "command", n |-> 0]
  /\ Says(Printed("spoilt", Marker(Head(tty)), 0))
  /\ UNCHANGED <<page, wire, aside, exit>>

\* Or the whole of it is: a comment, a quotation that goes on for lines.
BeginLost ==
  /\ shell.at = "prompt" /\ tty # << >> /\ Head(tty) \in joined
  /\ tty' = Tail(tty)
  /\ shell' = [of |-> Reader, at |-> "command", n |-> 0]
  /\ UNCHANGED <<page, wire, aside, transcript, log, exit>>

WriteLine ==
  /\ shell.at = "command" /\ shell.n < MaxOutput
  /\ shell' = [shell EXCEPT !.n = @ + 1]
  /\ Says(Printed("out", shell.of, shell.n + 1))
  /\ UNCHANGED <<page, wire, tty, aside, exit>>

\* What an earlier command left running in the background prints a line, or
\* the kernel does.
WriteAside ==
  /\ aside < MaxAside /\ shell.at # "closing"
  /\ aside' = aside + 1
  /\ Says(Printed("aside", Reader, 0))
  /\ UNCHANGED <<page, wire, tty, shell, exit>>

\* A command that reads its terminal takes a line that was meant for the shell.
Eat ==
  /\ shell.at = "command" /\ tty # << >>
  /\ tty' = Tail(tty)
  /\ UNCHANGED <<page, wire, shell, aside, transcript, log, exit>>

\* The command ends, and the closing fence begins to arrive.
End ==
  /\ shell.at = "command"
  /\ IF shell.of = Reader
     THEN shell' = Idle /\ UNCHANGED <<transcript, log, exit>>
     ELSE \E s \in Status :
            /\ shell' = [shell EXCEPT !.at = "closing"]
            /\ exit' = [exit EXCEPT ![shell.of] = s]
            /\ Says(Printed("ending", Marker(shell.of), s \div 10))
  /\ UNCHANGED <<page, wire, tty, aside>>

Close ==
  /\ shell.at = "closing"
  /\ SaysRest(Printed("end", Marker(shell.of), exit[shell.of]))
  /\ shell' = Idle
  /\ UNCHANGED <<page, wire, tty, aside, exit>>

\* The line is interrupted, and with it the fence that would have closed it;
\* what is typed of the next one is dropped.
Interrupt ==
  /\ typed < MaxTyped
  /\ shell.at = "command"
  /\ typed' = typed + 1
  /\ half' = FALSE
  /\ shell' = Idle
  /\ Says(Printed("echo", Reader, 0))
  /\ UNCHANGED <<runs, run, answer, joined, wire, tty, aside, exit>>

-----------------------------------------------------------------------------
Init ==
  /\ runs = 0 /\ typed = 0
  /\ run = [r \in Run |-> "not yet"]
  /\ answer = [r \in Run |-> [status |-> NoStatus, output |-> << >>]]
  /\ half = FALSE /\ joined = {}
  /\ wire = << >> /\ tty = << >>
  /\ shell = Idle
  /\ aside = 0
  /\ transcript = << >> /\ log = << >>
  /\ exit = [r \in Run |-> NoStatus]

Guest ==
  \/ Arrive \/ Begin \/ BeginSpoilt \/ BeginLost
  \/ WriteLine \/ WriteAside \/ Eat \/ End \/ Close

Next ==
  \/ Ask \/ Type \/ TypeHalf \/ Interrupt
  \/ \E r \in Run : Resolve(r) \/ TimeOut(r)
  \/ Guest

Spec == Init /\ [][Next]_vars

\* The timers of the polls fire.  Nothing is assumed of the guest.
FairSpec == Spec /\ \A r \in Run : WF_vars(Resolve(r) \/ TimeOut(r))

-----------------------------------------------------------------------------
\* Every variable holds a value of its kind, and the console no more than its
\* limit (boot.js, watchConsole).
TypeOK ==
  /\ runs \in 0 .. MaxRuns /\ typed \in 0 .. MaxTyped
  /\ run \in [Run -> {"not yet", "waiting", "done", "late"}]
  /\ answer \in [Run -> [status : Nat \cup {NoStatus}, output : Seq(Line)]]
  /\ wire \in Seq(Run \cup {Reader}) /\ tty \in Seq(Run \cup {Reader})
  /\ half \in BOOLEAN /\ joined \subseteq Run
  /\ shell \in [of : Run \cup {Reader}, at : {"prompt", "command", "closing"}, n : Nat]
  /\ aside \in 0 .. MaxAside
  /\ log \in Seq(Line)
  /\ transcript \in Seq(Line) /\ Len(transcript) <= TranscriptLimit
  /\ exit \in [Run -> Status \cup {NoStatus}]

\* A run that resolves with a status was told the status of its own command,
\* which has ended (agent.js, completion: "reading a line that is still
\* arriving turns a status of 127 into 1").
StatusIsOwn ==
  \A r \in Run : run[r] = "done" => answer[r].status = exit[r] /\ exit[r] # NoStatus

\* The output of a run whose opening fence was printed holds no line of
\* another command and no other run's fence, although runs overlap and the
\* reader types; only a job in the background prints between its fences
\* (agent.js, outputOf).
OutputIsOwn ==
  \A r \in Run : run[r] = "done" /\ At(log, "go", r) # {} =>
    \A i \in DOMAIN answer[r].output :
      LET line == answer[r].output[i]
      IN  line.kind \notin {"echo", "aside"} => line.kind = "out" /\ line.of = r

\* Where the output of a run begins: behind its opening fence, or with the
\* first line of the console when that was never printed.
Starts(r) == IF At(log, "go", r) = {} THEN {0} ELSE At(log, "go", r)

\* Its output is all the console got from there to the closing fence of its own
\* command, unless the guest has since written more than the console keeps
\* (agent.js, outputOf; boot.js, watchConsole).
OutputIsWhole ==
  \A r \in Run : run[r] = "done" =>
    \E end \in DOMAIN log, start \in Starts(r) :
      /\ log[end] = Printed("end", r, exit[r])
      /\ \E from \in start .. end - 1 :
           /\ answer[r].output = SubSeq(log, from + 1, end - 1)
           /\ from = start \/ Len(log) - start >= TranscriptLimit

\* A run resolves, whatever the guest does (agent.js, run: "Resolves either
\* way").
RunEnds == \A r \in Run : run[r] = "waiting" ~> run[r] \in {"done", "late"}

=============================================================================
