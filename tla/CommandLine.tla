---------------------------- MODULE CommandLine -----------------------------
(***************************************************************************)
(* src/main.rs, src/cli_checks.rs and the output streams of src/common.rs:  *)
(* what every command of release-policy prints and answers, how the texts   *)
(* get to stdout and stderr through Python's buffering, and the exit status *)
(* that is left when a stream breaks at any moment.  The texts themselves   *)
(* are left out; a text has a stream and a size.                            *)
(***************************************************************************)
EXTENDS Naturals, Sequences, SequencesExt, FiniteSets

CONSTANTS
    Calls,     \* commands with what they find
    BufferSize \* BUFFER_SIZE, in texts of size one

VARIABLES
    call,
    unbuffered, \* PYTHONUNBUFFERED
    terminal,   \* the streams that are a terminal
    closed,     \* stdout was closed from the start: it takes texts nowhere
    broken,     \* the streams whose writes fail from now on
    todo,       \* the texts the command has still to print
    code,       \* what it will answer
    buffer,     \* sizes of the texts held for stdout
    got,        \* history: texts that reached stdout and stderr
    errFailed,  \* STDERR_FAILED
    pending,    \* STDOUT_PENDING
    pc, status

vars == <<call, unbuffered, terminal, closed, broken, todo, code, buffer, got, errFailed, pending, pc, status>>

Streams == {"out", "err"}

-----------------------------------------------------------------------------
(* The commands: texts and answer *)

Text(stream, size) == [to |-> stream, size |-> size]
Out == Text("out", 1)
Err == Text("err", 1)
Lines(n) == [i \in 1 .. n |-> Out]

Answer(texts, c) == [texts |-> texts, code |-> c]

\* A command that either prints its result or refuses on stderr.
Plainly(ok, texts) == IF ok THEN Answer(texts, 0) ELSE Answer(<<Err>>, 1)

\* EgressArgs::execute.
EgressRefused(c) == c.terms = c.noTerms \/ c.failed

Blocking(c) == c.other + (IF c.allowStructural THEN 0 ELSE c.structural)

Egress(c) ==
    IF EgressRefused(c) THEN Answer(<<Err, Out>>, 2)
    ELSE Answer(Lines(c.excluded + c.unscanned + c.structural + c.other + 1),
                IF Blocking(c) > 0 \/ (c.unscanned > 0 /\ ~c.allowUnscanned) THEN 1 ELSE 0)

\* parse_required_checks: comments and blank lines aside, at least one check,
\* each of a workflow path, and none twice.
ListIsReadable(c) == c.list = "checks"

\* command and RequiredArgs::execute: the arguments before the list, the list
\* before GitHub; every passed check on stdout, the others on stderr.
Required(c) ==
    IF ~c.arguments \/ ~ListIsReadable(c) \/ c.failing
    THEN Answer(<<Text("out", 0), Err>>, 1)
    ELSE LET bad == c.pending + c.failed IN
         Answer(<<Text("out", c.passed + IF bad = 0 THEN 1 ELSE 0), Text("err", bad)>>,
                IF bad = 0 THEN 0 ELSE 1)

\* AttributionArgs, ReviewsArgs, CanariesArgs::execute, the last with render.
Attribution(c) == Plainly(c.identity /\ c.result = "clean", <<>>)

Reviews(c) == Plainly(c.ok, <<Out>>)

Canaries(c) ==
    IF ~c.manifest \/ (c.live /\ c.failing) THEN Answer(<<Err>>, 1)
    ELSE IF ~c.live THEN Answer(<<Out>>, 0)
    ELSE LET bad == c.errors > 0 \/ (c.current /\ c.warnings > 0) IN
         Answer(<<Text("out", c.errors + c.warnings + IF bad THEN 0 ELSE 1)>>,
                IF bad THEN 1 ELSE 0)

\* The rest of execute: release and archive commands print a result or end with
\* an error main prints; verify-skills prints nothing; pin-families its report.
Release(c) == Plainly(c.ok, Lines(c.prints))

Skills(c) == Plainly(c.ok, <<>>)

Pins(c) == IF ~c.two THEN Answer(<<Err>>, 2) ELSE Plainly(c.ok, <<Text("out", c.families)>>)

\* print_clap: help on stdout, a usage error on stderr.
Usage(c) == IF c.help THEN Answer(<<Out>>, 0) ELSE Answer(<<Err>>, 2)

\* A thread that panics has said so itself.
Panics(c) == Answer(<<>>, 1)

Execute(c) ==
    CASE c.command = "check-egress"       -> Egress(c)
      [] c.command = "required-checks"    -> Required(c)
      [] c.command = "attribution-status" -> Attribution(c)
      [] c.command = "check-reviews"      -> Reviews(c)
      [] c.command = "check-canaries"     -> Canaries(c)
      [] c.command = "python-release"     -> Release(c)
      [] c.command = "verify-skills"      -> Skills(c)
      [] c.command = "pin-families"       -> Pins(c)
      [] c.command = "usage"              -> Usage(c)
      [] c.command = "panic"              -> Panics(c)

-----------------------------------------------------------------------------
(* The streams *)

Init ==
    /\ call \in Calls
    /\ todo = Execute(call).texts
    /\ code = Execute(call).code
    /\ unbuffered \in BOOLEAN /\ terminal \in SUBSET Streams /\ closed \in BOOLEAN
    /\ broken \in SUBSET Streams
    /\ buffer = <<>>
    /\ got = [s \in Streams |-> 0]
    /\ errFailed = FALSE /\ pending = FALSE
    /\ pc = "print" /\ status = -1

\* A pipe is closed, a disk is full: from now on writes to the stream fail.
Break(s) ==
    /\ pc # "exited" /\ s \notin broken
    /\ broken' = broken \cup {s}
    /\ UNCHANGED <<call, unbuffered, terminal, closed, todo, code, buffer, got, errFailed, pending, pc, status>>

Works(s) == s \notin broken \/ (s = "out" /\ closed)

\* stdout as python_stdout builds it: texts are held only when it is buffered
\* and no terminal.
Holds == ~unbuffered /\ "out" \notin terminal

Total(sizes) == FoldSeq(LAMBDA a, b : a + b, 0, sizes)

\* write_all on stdout.  A text that does not fit flushes what is held; one as
\* large as the buffer is then written through.
WriteOut(text) ==
    IF text.size = 0 THEN [ok |-> TRUE, got |-> 1, held |-> buffer] ELSE
    LET flushes == Holds /\ Total(buffer) + text.size > BufferSize
        through == ~Holds \/ text.size >= BufferSize
        flushed == IF flushes THEN Len(buffer) ELSE 0 IN
    [ok   |-> Works("out") \/ (~through /\ ~(flushes /\ buffer # <<>>)),
     got  |-> flushed + IF through THEN 1 ELSE 0,
     held |-> (IF flushes THEN <<>> ELSE buffer) \o (IF through THEN <<>> ELSE <<text.size>>)]

\* print: a failed write says so on stderr, as far as that works, and ends the
\* process through shutdown.
PrintFails ==
    /\ pc' = "shutdown"
    /\ code' = 1
    /\ todo' = <<>>
    /\ errFailed' = (errFailed \/ ~Works("err"))
    /\ UNCHANGED <<call, unbuffered, terminal, closed, broken, buffer, got, pending, status>>

IsUsage == call.command = "usage"

Printed ==
    /\ todo' = Tail(todo)
    /\ UNCHANGED <<call, unbuffered, terminal, closed, broken, code, pc, status>>

PrintOut ==
    /\ pc = "print" /\ todo # <<>> /\ Head(todo).to = "out" /\ ~IsUsage
    /\ LET written == WriteOut(Head(todo)) IN
       IF written.ok
       THEN /\ Printed
            /\ buffer' = written.held
            /\ got' = [got EXCEPT !["out"] = @ + written.got]
            /\ UNCHANGED <<errFailed, pending>>
       ELSE PrintFails

PrintErr ==
    /\ pc = "print" /\ todo # <<>> /\ Head(todo).to = "err" /\ ~IsUsage
    /\ IF Works("err") \/ Head(todo).size = 0
       THEN /\ Printed
            /\ got' = [got EXCEPT !["err"] = @ + 1]
            /\ UNCHANGED <<buffer, errFailed, pending>>
       ELSE PrintFails

\* print_clap: clap writes to a terminal itself, usage_failed keeps what it
\* could not; elsewhere print_usage writes and ignores the error.
PrintUsage ==
    /\ pc = "print" /\ todo # <<>> /\ IsUsage
    /\ Printed
    /\ LET to == Head(todo).to
           held == to = "out" /\ Holds IN
       /\ got' = IF ~held /\ Works(to) THEN [got EXCEPT ![to] = @ + 1] ELSE got
       /\ buffer' = IF held THEN Append(buffer, Head(todo).size) ELSE buffer
       /\ errFailed' = (errFailed \/ (to = "err" /\ ~Works(to)))
       /\ pending' = (to = "out" /\ to \in terminal /\ ~Works(to) /\ ~unbuffered)

Return ==
    /\ pc = "print" /\ todo = <<>>
    /\ pc' = "shutdown"
    /\ UNCHANGED <<call, unbuffered, terminal, closed, broken, todo, code, buffer, got, errFailed, pending, status>>

\* Mutant: the process ends with what the command answered.
ShutdownQuietly ==
    /\ pc = "shutdown"
    /\ pc' = "exited"
    /\ status' = code
    /\ got' = IF Works("out") THEN [got EXCEPT !["out"] = @ + Len(buffer)] ELSE got
    /\ buffer' = <<>>
    /\ UNCHANGED <<call, unbuffered, terminal, closed, broken, todo, code, errFailed, pending>>

\* shutdown: flush stdout, then look at stderr; text still pending in either
\* makes the status 120.
Shutdown ==
    /\ pc = "shutdown"
    /\ pc' = "exited"
    /\ LET failed == pending \/ (buffer # <<>> /\ ~Works("out"))
           errs == errFailed \/ (failed /\ ~Works("err")) IN
       /\ status' = IF failed \/ (errs /\ ~unbuffered) THEN 120 ELSE code
       /\ errFailed' = errs
       /\ got' = IF failed THEN got ELSE [got EXCEPT !["out"] = @ + Len(buffer)]
       /\ buffer' = <<>>
    /\ UNCHANGED <<call, unbuffered, terminal, closed, broken, todo, code, pending>>

Next ==
    \/ PrintOut \/ PrintErr \/ PrintUsage \/ Return \/ Shutdown
    \/ \E s \in Streams : Break(s)

Spec == Init /\ [][Next]_vars

-----------------------------------------------------------------------------
(* Properties *)

Printing(s) == Cardinality({i \in DOMAIN Execute(call).texts : Execute(call).texts[i].to = s})

\* Status 0 means that every text of the command arrived, whenever a stream
\* broke and however much was held back until the end.  argparse ignored its
\* own write errors, so unbuffered help is exempt, and so is a stdout that was
\* closed before the command began, which took no text from Python either
\* (print, print_usage, shutdown).
ZeroIsDelivered ==
    status = 0 /\ ~closed /\ ~(IsUsage /\ unbuffered) =>
        \A s \in Streams : got[s] = Printing(s)

\* What each command must not let pass with status 0, whatever the streams do:
\* docs/egress-check.md's three bands, a check that did not pass, an error, a
\* run that could not be judged.
ZeroIsEarned ==
    status = 0 =>
        CASE call.command = "check-egress" ->
               /\ ~call.failed /\ call.terms # call.noTerms
               /\ call.other = 0
               /\ call.structural > 0 => call.allowStructural
               /\ call.unscanned > 0 => call.allowUnscanned
          [] call.command = "required-checks" ->
               ~call.failing /\ call.list = "checks" /\ call.pending + call.failed = 0
          [] call.command = "attribution-status" -> call.result = "clean"
          [] call.command = "check-canaries" ->
               call.manifest /\ (call.live => ~call.failing /\ call.errors = 0)
          [] call.command \in {"check-reviews", "python-release", "verify-skills"} -> call.ok
          [] call.command = "pin-families" -> call.two /\ call.ok
          [] call.command = "usage" -> call.help
          [] OTHER -> FALSE

\* What a caller may conclude from status 0.
ZeroMeansDone == ZeroIsDelivered /\ ZeroIsEarned

-----------------------------------------------------------------------------
(* What the proofs assume of the constants, and what they rest on.           *)

LineAssumption ==
    Calls \subseteq
        [command : {"check-egress"}, terms : BOOLEAN, noTerms : BOOLEAN, failed : BOOLEAN,
         excluded : Nat, unscanned : Nat, structural : Nat, other : Nat,
         allowStructural : BOOLEAN, allowUnscanned : BOOLEAN]
        \cup
        [command : {"required-checks"}, arguments : BOOLEAN,
         list : {"checks", "empty", "malformed"}, failing : BOOLEAN,
         passed : Nat, pending : Nat, failed : Nat]
        \cup
        [command : {"attribution-status"}, identity : BOOLEAN,
         result : {"clean", "dirty", "error"}]
        \cup [command : {"check-reviews", "verify-skills"}, ok : BOOLEAN]
        \cup
        [command : {"check-canaries"}, manifest : BOOLEAN, live : BOOLEAN, failing : BOOLEAN,
         errors : Nat, warnings : Nat, current : BOOLEAN]
        \cup [command : {"python-release"}, ok : BOOLEAN, prints : Nat]
        \cup [command : {"pin-families"}, two : BOOLEAN, ok : BOOLEAN, families : Nat]
        \cup [command : {"usage"}, help : BOOLEAN]
        \cup [command : {"panic"}]

Texts == Execute(call).texts

\* How many of the first k texts are the stream's.
Sent(s, k) == Cardinality({i \in 1 .. k : Texts[i].to = s})

\* The first k texts were printed: they arrived or are held back, or something
\* says that they were not.
IsPrinted(k) ==
    /\ todo = SubSeq(Texts, k + 1, Len(Texts))
    /\ ~(IsUsage /\ unbuffered) =>
           \/ pending \/ (errFailed /\ ~unbuffered)
           \/ got["out"] + Len(buffer) = Sent("out", k) /\ got["err"] = Sent("err", k)

IInv ==
    /\ call \in Calls /\ unbuffered \in BOOLEAN /\ code \in Nat
    /\ got \in [Streams -> Nat] /\ buffer \in Seq(Nat)
    /\ pc \in {"print", "shutdown", "exited"}
    /\ code = 0 => Execute(call).code = 0
    /\ pending => todo = <<>>
    /\ pc # "exited" => status = -1
    /\ pc = "print" => \E k \in 0 .. Len(Texts) : IsPrinted(k)
    /\ pc = "shutdown" /\ code = 0 => IsPrinted(Len(Texts))
    /\ ZeroMeansDone

=============================================================================
