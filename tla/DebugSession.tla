---------------------------- MODULE DebugSession ----------------------------
(***************************************************************************)
(* A debug session: DAPServer.cpp over the interpreter.  The server answers *)
(* one request at a time; the requests that resume the program run it to    *)
(* its next pause inside the handler, so each request is one action.        *)
(***************************************************************************)
EXTENDS DebugInterpreter

CONSTANTS Programs,        \* the programs a session may launch, by name
          BreakpointSets,  \* the lists of breakpoints a client may set for a file
          Watches,         \* the pairs <<tokens, expression>> a client may evaluate
          MaxSets,         \* how many setBreakpoints requests a session makes
          MaxResumes,      \* how many times it resumes while every pause was in main's body,
          MaxNested,       \* and how many more after a pause elsewhere
          MaxRefs          \* how many variable references it asks for

VARIABLES program,       \* the launched program
          phase,         \* "start", "launched", "paused", "ended": what the events told the client
          m,             \* interpreter_
          sets,          \* setBreakpoints requests so far
          output,        \* the output events received
          refs,          \* variableRefs_ and structVarRefs_; the next reference is Len(refs) + 1
          resumes,       \* resume requests so far
          nested         \* history: 0, or 1 + the resumes since a pause outside main's body

dvars == <<program, phase, m, sets, output, refs, resumes, nested>>

MainFile == "main"
Files == {MainFile, "other"}

\* A pause in a callee, or in a block nested in main's.
OutsideMainBody(P, i) ==
  \/ Depth(i) # 1
  \/ \A k \in 1 .. Len(P.functions["main"].body) :
       P.functions["main"].body[k].line # i.lastPausedLine

DInit ==
  /\ program \in DOMAIN Programs
  /\ phase = "start" /\ m = Loaded(<<>>)
  /\ sets = 0 /\ output = <<>> /\ refs = <<>> /\ resumes = 0 /\ nested = 0

\* launch compiles the program and loads it; breakpoints already set stay.
Launch ==
  /\ phase = "start"
  /\ phase' = "launched"
  /\ m' = Loaded(m.breakpoints)
  /\ UNCHANGED <<program, sets, output, refs, resumes, nested>>

\* Replaces the breakpoints of one file, with new hit counts.  The interpreter
\* keeps those of every file, in the order of their paths.
SetBreakpoints(file, list) ==
  /\ phase # "ended" /\ sets < MaxSets
  /\ sets' = sets + 1
  /\ LET new == [i \in 1 .. Len(list) |->
                   list[i] @@ [file |-> file, hitCount |-> 0, since |-> Len(m.trace)]]
         kept == SelectSeq(m.breakpoints, LAMBDA bp : bp.file # file)
     IN  m' = [m EXCEPT !.breakpoints = IF file = MainFile THEN new \o kept ELSE kept \o new]
  /\ UNCHANGED <<program, phase, output, refs, resumes, nested>>

\* runInterpreter: the output, then `stopped` or `exited` and `terminated`.
runInterpreter(i, mode) ==
  LET r == resume(Programs[program], i, mode)
  IN  /\ m' = [r EXCEPT !.outputBuffer = <<>>]
      /\ output' = output \o r.outputBuffer
      /\ phase' = IF r.state = "Paused" THEN "paused" ELSE "ended"
      /\ nested' = IF nested > 0 THEN nested + 1
                   ELSE IF r.state = "Paused" /\ OutsideMainBody(Programs[program], r) THEN 1 ELSE 0

ConfigurationDone ==
  /\ phase \in {"start", "launched"}
  /\ IF phase = "launched"
     THEN runInterpreter(start(m), "Continue")
     ELSE phase' = "ended" /\ UNCHANGED <<m, output, nested>>     \* nothing to start
  /\ UNCHANGED <<program, sets, refs, resumes>>

\* continue, next, stepIn and stepOut, asked for by a client that was told the
\* program stopped.
Resume(mode) ==
  /\ phase = "paused"
  /\ resumes < MaxResumes /\ nested <= MaxNested
  /\ resumes' = resumes + 1
  /\ runInterpreter(m, mode)
  /\ UNCHANGED <<program, sets, refs>>

HasParts(v) == v.kind \in {"Array", "Struct"}

\* scopes: a reference to the locals of a frame of the stack trace.
Scopes(i) ==
  /\ phase = "paused" /\ Len(refs) < MaxRefs
  /\ refs' = Append(refs, [to |-> "frame", id |-> m.stack[i].id, fn |-> m.stack[i].fn])
  /\ UNCHANGED <<program, phase, m, sets, output, resumes, nested>>

\* What `variables` lists for a reference to a frame: nothing once it is gone.
handleVariables(ref) == getFrameLocals(m, refs[ref].id)

\* variables: each array or structure among the locals gets a reference.
Variables(ref) ==
  /\ phase = "paused" /\ Len(refs) < MaxRefs
  /\ refs[ref].to = "frame"
  /\ LET locals == handleVariables(ref)
         parts == SetToSeq({x \in DOMAIN locals : HasParts(locals[x])})
     IN  /\ parts # <<>>
         /\ refs' = refs \o [i \in 1 .. Len(parts) |-> [to |-> "value", v |-> locals[parts[i]]]]
  /\ UNCHANGED <<program, phase, m, sets, output, resumes, nested>>

DNext ==
  \/ Launch
  \/ \E file \in Files, list \in BreakpointSets : SetBreakpoints(file, list)
  \/ ConfigurationDone
  \/ \E mode \in {"Continue", "Next", "StepIn", "StepOut"} : Resume(mode)
  \/ \E i \in 1 .. Depth(m) : Scopes(i)
  \/ \E ref \in 1 .. Len(refs) : Variables(ref)

DSpec == DInit /\ [][DNext]_dvars

-----------------------------------------------------------------------------
(* Properties. *)

Plain == [P \in DOMAIN Programs |-> PlainRun(Programs[P])]

Started == m.nextFrameId > 1

Prints(out) == SelectSeq(out, LAMBDA o : o[1] = "print")

\* Being debugged changes nothing: as long as every pause was at a statement of
\* main's own body, the statements executed and the lines printed are those of the
\* program run without a debugger, from its beginning, and all of them when it has
\* ended.  (resume, DAPInterpreter.cpp:142, starts the block again at the saved
\* index.)  Nor does it count a hit twice: a breakpoint's hits never exceed the
\* executions of its line since it was set, the one it is paused before included
\* (shouldPause, DAPInterpreter.cpp:659, skips to the pause point).
ResumeSound ==
  nested = 0 =>
    /\ Started => /\ IsPrefix(m.trace, Plain[program].trace)
                  /\ IsPrefix(Prints(output), Plain[program].outputBuffer)
                  /\ phase = "ended" => /\ m.trace = Plain[program].trace
                                        /\ Prints(output) = Plain[program].outputBuffer
    /\ \A i \in DOMAIN m.breakpoints :
         LET bp == m.breakpoints[i]
             runs == {k \in bp.since + 1 .. Len(m.trace) : m.trace[k] = bp.line}
         IN  bp.hitCount <= Cardinality(runs)
                            + IF phase = "paused" /\ m.lastPausedLine = bp.line THEN 1 ELSE 0

\* The same, wherever the program paused: what the comment at the saved index says
\* ("so resume() starts here", DAPInterpreter.cpp:718) and the code does not do
\* for a pause in a callee or in a nested block.
OutputAsUndebugged ==
  phase = "ended" /\ Started => Prints(output) = Plain[program].outputBuffer


\* Every resume executes at least one statement: with ResumeSound, a user who
\* keeps resuming reaches the end of the program.
ResumeProgresses ==
  [][resumes' # resumes /\ nested = 0 => Len(m'.trace) > Len(m.trace)]_dvars
=============================================================================
