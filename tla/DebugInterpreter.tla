-------------------------- MODULE DebugInterpreter --------------------------
(***************************************************************************)
(* The tree-walking interpreter of the debugger (DAPInterpreter.cpp): the   *)
(* decision to pause before a statement, the execution of statements, the   *)
(* evaluation of expressions and calls, and the small parser that evaluates *)
(* the text of a watch or of a condition.                                   *)
(*                                                                         *)
(* A program is a record                                                   *)
(*   functions |-> [name -> [params |-> <<names>>, body |-> <<stmts>>]]     *)
(*   methods   |-> the same for the methods of its structure               *)
(* and the interpreter is the record m of the fields of DAPInterpreter.     *)
(* Strings and floats are left out: values are integers, Booleans, arrays   *)
(* and structures.                                                          *)
(***************************************************************************)
EXTENDS Integers, Sequences, SequencesExt, FiniteSets

VNil      == [kind |-> "Nil"]
VInt(n)   == [kind |-> "Integer", is |-> n]
VBool(b)  == [kind |-> "Bool", is |-> b]
VArray(s) == [kind |-> "Array", is |-> s]
VStruct(f) == [kind |-> "Struct", is |-> f]

isTruthy(v) ==
  CASE v.kind = "Nil"     -> FALSE
    [] v.kind = "Integer" -> v.is # 0
    [] v.kind = "Bool"    -> v.is
    [] v.kind = "Array"   -> v.is # <<>>
    [] v.kind = "Struct"  -> TRUE

BothInts(a, b) == a.kind = "Integer" /\ b.kind = "Integer"

\* C++ divides towards zero: the remainder has the sign of the dividend.
Remainder(a, b) ==
  LET Abs(n) == IF n < 0 THEN -n ELSE n
  IN  IF b = 0 THEN 0 ELSE IF a < 0 THEN -(Abs(a) % Abs(b)) ELSE a % Abs(b)

\* The operators shared by programs and watches.
Arithmetic(op, a, b) ==
  IF ~BothInts(a, b) THEN VNil
  ELSE CASE op = "+" -> VInt(a.is + b.is)
         [] op = "-" -> VInt(a.is - b.is)
         [] op = "*" -> VInt(a.is * b.is)
         [] op = "%" -> VInt(Remainder(a.is, b.is))

Comparison(op, a, b) ==
  CASE op = "==" -> VBool(a.kind = b.kind /\ a.kind \in {"Integer", "Bool"} /\ a.is = b.is)
    [] op = "<"  -> IF BothInts(a, b) THEN VBool(a.is < b.is) ELSE VNil
    [] op = "<=" -> IF BothInts(a, b) THEN VBool(a.is <= b.is) ELSE VNil

evaluateBinaryExpr(op, a, b) ==
  CASE op \in {"+", "-", "*", "%"} -> Arithmetic(op, a, b)
    [] op \in {"==", "<", "<="}    -> Comparison(op, a, b)
    [] op = "&&" -> VBool(isTruthy(a) /\ isTruthy(b))
    [] op = "||" -> VBool(isTruthy(a) \/ isTruthy(b))
    [] op = "??" -> IF a.kind # "Nil" THEN a ELSE b

-----------------------------------------------------------------------------
(* The frames. *)

Depth(m) == Len(m.stack)

Top(m) == m.stack[Depth(m)]

Pop(m) == [m EXCEPT !.stack = Front(@)]

NoFunction == "none"

CallFrame(m, fn, locals) ==
  [fn |-> fn, id |-> m.nextFrameId, line |-> 0, stmtIndex |-> 1, locals |-> locals]

PushFrame(m, frame) ==
  [m EXCEPT !.stack = Append(@, frame), !.nextFrameId = @ + 1]

\* The innermost frame that has the variable (0: none has it).
FrameOf(m, name) ==
  LET holders == {i \in 1 .. Depth(m) : name \in DOMAIN m.stack[i].locals}
  IN  IF holders = {} THEN 0 ELSE CHOOSE i \in holders : \A j \in holders : j <= i

Bind(locals, name, v) == [x \in DOMAIN locals \cup {name} |-> IF x = name THEN v ELSE locals[x]]

SetIn(m, i, name, v) == [m EXCEPT !.stack[i].locals = Bind(@, name, v)]

setVariable(m, name, v) == IF m.stack = <<>> THEN m ELSE SetIn(m, Depth(m), name, v)

\* Reading a variable nobody has creates it, nil, in the top frame.
lookupVariable(m, name) ==
  LET i == FrameOf(m, name)
  IN  IF i # 0 THEN [m |-> m, v |-> m.stack[i].locals[name]]
      ELSE [m |-> setVariable(m, name, VNil), v |-> VNil]

getFrameLocals(m, id) ==
  LET with == {i \in 1 .. Depth(m) : m.stack[i].id = id}
  IN  IF with = {} THEN << >> ELSE m.stack[CHOOSE i \in with : TRUE].locals

-----------------------------------------------------------------------------
(* Watches and conditions: the text is a sequence of tokens, parsed by         *)
(* precedence climbing and evaluated on the way.  A parse is [v, at].          *)

\* A plain name: the given frame first, then the innermost frame that has it.
WatchVariable(m, frameId, name) ==
  LET locals == getFrameLocals(m, frameId)
      i == FrameOf(m, name)
  IN  IF name \in DOMAIN locals THEN locals[name]
      ELSE IF i # 0 THEN m.stack[i].locals[name] ELSE VNil


\* The operators of each level, weakest first.
Level == << {"||"}, {"&&"}, {"==", "<", "<="}, {"+", "-"}, {"*", "%"} >>

IntLit == [token \in {"0", "1", "2"} |-> CHOOSE n \in 0 .. 2 : <<"0", "1", "2">>[n + 1] = token]

\* Ordering comparisons of a watch are false, not nil, on other values.
WatchBinary(op, a, b) ==
  LET v == evaluateBinaryExpr(op, a, b)
  IN  IF op \in {"<", "<="} /\ v.kind = "Nil" THEN VBool(FALSE) ELSE v

\* parse(w, at, rule, left): w is the watch [m, frame, tokens].  rule is the level
\* to parse; Rest + level continues `left` with the operators of the level; and
\* Postfix continues it with an index.
Rest == 10
Postfix == 20
Primary == Len(Level) + 1

RECURSIVE Parse(_, _, _, _)

PrimaryAt(w, at) ==
  LET token == IF at <= Len(w.tokens) THEN w.tokens[at] ELSE "eof"
      Skip(p, t) == IF p.at <= Len(w.tokens) /\ w.tokens[p.at] = t THEN [p EXCEPT !.at = @ + 1] ELSE p
  IN  CASE token = "(" -> Skip(Parse(w, at + 1, 1, VNil), ")")
        [] token = "!" ->
             LET inner == Parse(w, at + 1, Primary, VNil) IN [inner EXCEPT !.v = VBool(~isTruthy(@))]
        [] token \in DOMAIN IntLit -> [v |-> VInt(IntLit[token]), at |-> at + 1]
        [] token \in {"eof", ")", "]"} -> [v |-> VNil, at |-> at]
        [] OTHER -> Parse(w, at + 1, Postfix, WatchVariable(w.m, w.frame, token))

\* name [ index ], and while (peek() is an operator of the level) left = left op right
Parse(w, at, rule, left) ==
  LET next == IF at <= Len(w.tokens) THEN w.tokens[at] ELSE "eof"
  IN  IF rule < Primary
      THEN LET first == Parse(w, at, rule + 1, VNil) IN Parse(w, first.at, Rest + rule, first.v)
      ELSE IF rule = Primary THEN PrimaryAt(w, at)
      ELSE IF rule = Postfix
      THEN IF next # "[" THEN [v |-> left, at |-> at]
           ELSE LET index == Parse(w, at + 1, 1, VNil)
                    within == /\ left.kind = "Array" /\ index.v.kind = "Integer"
                              /\ index.v.is \in 0 .. Len(left.is) - 1
                IN  Parse(w, index.at + 1, Postfix, IF within THEN left.is[index.v.is + 1] ELSE VNil)
      ELSE IF next \notin Level[rule - Rest] THEN [v |-> left, at |-> at]
      ELSE LET right == Parse(w, at + 1, rule - Rest + 1, VNil)
           IN  Parse(w, right.at, rule, WatchBinary(next, left, right.v))

AnyFrame == -1

evaluateExprString(m, tokens, frameId) ==
  IF tokens = <<>> THEN VNil
  ELSE Parse([m |-> m, frame |-> frameId, tokens |-> tokens], 1, 1, VNil).v

-----------------------------------------------------------------------------
(* When to pause. *)

\* A hit condition is << >> or <<operator, n>>; "=" is no operator it knows.
checkHitCondition(cond, hits) ==
  \/ cond = <<>>
  \/ cond[1] \in {"", "=="} /\ hits = cond[2]
  \/ cond[1] = ">"  /\ hits > cond[2]
  \/ cond[1] = ">=" /\ hits >= cond[2]
  \/ cond[1] = "%"  /\ cond[2] > 0 /\ hits % cond[2] = 0
  \/ cond[1] = "="

RECURSIVE CheckFrom(_, _, _)

\* The breakpoints of every file are tried in order; each one at the line counts
\* a hit; a log point that fires ends the search.
CheckFrom(m, line, i) ==
  IF i > Len(m.breakpoints) THEN [m |-> m, pause |-> FALSE]
  ELSE LET bp == m.breakpoints[i]
           hit == [m EXCEPT !.breakpoints[i].hitCount = @ + 1]
       IN  IF bp.line # line THEN CheckFrom(m, line, i + 1)
           ELSE IF ~checkHitCondition(bp.hitCondition, bp.hitCount + 1)
                THEN CheckFrom(hit, line, i + 1)
           ELSE IF bp.condition # <<>> /\ ~isTruthy(evaluateExprString(hit, bp.condition, AnyFrame))
                THEN CheckFrom(hit, line, i + 1)
           ELSE IF bp.logMessage # <<>>
                THEN [m |-> [hit EXCEPT !.outputBuffer =
                               Append(@, <<"log", evaluateExprString(hit, bp.logMessage, AnyFrame)>>)],
                      pause |-> FALSE]
           ELSE [m |-> [hit EXCEPT !.stopReason = "breakpoint", !.lastPausedLine = line],
                 pause |-> TRUE]

checkBreakpointAtLine(m, line) == CheckFrom(m, line, 1)

StepStops(m) ==
  \/ m.stepMode = "StepIn"
  \/ m.stepMode = "Next" /\ Depth(m) <= m.stepFrameDepth
  \/ m.stepMode = "StepOut" /\ Depth(m) < m.stepFrameDepth

\* Mutant: nothing is skipped after a resume.
shouldPauseAtOnce(m, line) ==
  IF StepStops(m)
  THEN [m |-> [m EXCEPT !.stopReason = "step", !.lastPausedLine = line], pause |-> TRUE]
  ELSE checkBreakpointAtLine(m, line)

shouldPause(m, line) ==
  IF m.resumeFromLine > 0
  THEN [m |-> IF line = m.resumeFromLine THEN [m EXCEPT !.resumeFromLine = 0] ELSE m,
        pause |-> FALSE]
  ELSE IF StepStops(m)
       THEN [m |-> [m EXCEPT !.stopReason = "step", !.lastPausedLine = line], pause |-> TRUE]
       ELSE checkBreakpointAtLine(m, line)

-----------------------------------------------------------------------------
(* Execution.  Run(P, m, n) evaluates an expression n, giving [m, v], or runs a  *)
(* statement or a block n, giving the StepResult [m, state, signal, value].  A  *)
(* pause is not an exception: it sets m.state, and each caller decides whether  *)
(* it looks at it.  trace is a history variable: the lines of the statements     *)
(* begun.                                                                      *)

Result(m, state, signal, value) == [m |-> m, state |-> state, signal |-> signal, value |-> value]

Done(m)   == Result(m, "Running", "None", VNil)
Paused(m) == Result(m, "Paused", "None", VNil)

\* `if (state_ == Paused) return Paused`, else go on.
UnlessPaused(m, next) == IF m.state = "Paused" THEN Paused(m) ELSE next

RECURSIVE Run(_, _, _)

\* Arguments from left to right: [m, vs].
EvalAll(P, m, es) ==
  FoldLeft(LAMBDA done, e : LET r == Run(P, done.m, e)
                            IN  [m |-> r.m, vs |-> Append(done.vs, r.v)],
           [m |-> m, vs |-> <<>>], es)

\* The statements of a block from the i-th; fn names the function it is the body of.
BlockFrom(fn, stmts, i) == [k |-> "block", fn |-> fn, stmts |-> stmts, from |-> i]

Nested(stmts) == BlockFrom(NoFunction, stmts, 1)

Params(f, vs) ==
  [x \in {f.params[i] : i \in 1 .. Len(f.params)} |->
     vs[CHOOSE i \in 1 .. Len(f.params) : f.params[i] = x]]

\* A call of a function with a body: a new frame, its block, and the frame is
\* popped, except when the block paused: then it stays, for the stack trace.
Call(P, m, name, f, locals) ==
  LET r == Run(P, PushFrame(m, CallFrame(m, name, locals)), BlockFrom(name, f.body, 1))
  IN  IF r.state = "Paused" THEN [m |-> r.m, v |-> VNil, done |-> FALSE]
      ELSE [m |-> r.m, v |-> IF r.signal = "Return" THEN r.value ELSE VNil, done |-> TRUE]

\* The operands of an expression, evaluated from left to right before anything else.
Operands(e) ==
  CASE e.k \in {"binary", "index", "range"} -> <<e.l, e.r>>
    [] e.k \in {"not", "member", "struct"} -> <<e.e>>
    [] e.k \in {"call", "method"} -> e.args
    [] e.k = "array" -> e.es
    [] e.k = "assign" -> <<e.value>>
    [] e.k = "ternary" -> <<e.cond>>
    [] OTHER -> <<>>

\* A call, after its arguments.
evaluateCallExpr(P, m, e, vs) ==
  IF e.fn = "println"
  THEN [m |-> [m EXCEPT !.outputBuffer = Append(@, <<"print", vs[1]>>)], v |-> VNil]
  ELSE IF e.fn = "len"
  THEN [m |-> m, v |-> VInt(IF vs[1].kind = "Array" THEN Len(vs[1].is) ELSE 0)]
  ELSE LET c == Call(P, m, e.fn, P.functions[e.fn], Params(P.functions[e.fn], vs))
       IN  [m |-> IF c.done THEN Pop(c.m) ELSE c.m, v |-> c.v]

\* A method of an array (push, pop) or of the structure held by a variable: self
\* is a copy, written back when a `ref mut self` method returns.
evaluateMethodCall(P, m, e, vs) ==
  LET holder == FrameOf(m, e.object)
      object == m.stack[holder].locals[e.object]
  IN  IF holder = 0 THEN [m |-> lookupVariable(m, e.object).m, v |-> VNil]
      ELSE IF object.kind = "Array" /\ e.fn = "push"
      THEN [m |-> SetIn(m, holder, e.object, VArray(Append(object.is, vs[1]))), v |-> VNil]
      ELSE IF object.kind = "Array" /\ e.fn = "pop" /\ object.is # <<>>
      THEN [m |-> SetIn(m, holder, e.object, VArray(Front(object.is))), v |-> Last(object.is)]
      ELSE IF object.kind = "Struct" /\ e.fn \in DOMAIN P.methods
      THEN LET f == P.methods[e.fn]
               c == Call(P, m, e.fn, f, Bind(Params(f, vs), "self", object))
               self == IF "self" \in DOMAIN Top(c.m).locals THEN Top(c.m).locals["self"] ELSE VNil
               back == SetIn(c.m, holder, e.object, self)
           IN  [m |-> IF ~c.done THEN c.m ELSE IF f.mutSelf THEN Pop(back) ELSE Pop(c.m), v |-> c.v]
      ELSE [m |-> m, v |-> VNil]

\* x = e sets the top frame's x; x += e the x that lookup finds; x.f = e a field.
evaluateAssignExpr(m, e, v) ==
  LET target == lookupVariable(m, e.name)
      i == FrameOf(target.m, e.name)
  IN  CASE e.op = "=" -> setVariable(m, e.name, v)
        [] e.op = "+=" ->
             IF BothInts(target.v, v)
             THEN SetIn(target.m, i, e.name, VInt(target.v.is + v.is)) ELSE target.m
        [] e.op = "." ->
             IF target.v.kind = "Struct"
             THEN SetIn(target.m, i, e.name, VStruct(Bind(target.v.is, e.field, v))) ELSE target.m

\* start..end, end excluded
RangeOf(a, b) == IF BothInts(a, b) THEN [i \in 1 .. (b.is - a.is) |-> VInt(a.is + i - 1)] ELSE <<>>

Field(v, f) == IF v.kind = "Struct" /\ f \in DOMAIN v.is THEN v.is[f] ELSE VNil

Element(a, i) ==
  IF a.kind = "Array" /\ i.kind = "Integer" /\ i.is \in 0 .. Len(a.is) - 1 THEN a.is[i.is + 1] ELSE VNil

evaluateExpr(P, m, e) ==
  LET r == EvalAll(P, m, Operands(e))
      vs == r.vs
      Value(v) == [m |-> r.m, v |-> v]
  IN  CASE e.k = "lit"     -> Value(e.v)
        [] e.k = "var"     -> lookupVariable(m, e.name)
        [] e.k = "binary"  -> Value(evaluateBinaryExpr(e.op, vs[1], vs[2]))
        [] e.k = "not"     -> Value(VBool(~isTruthy(vs[1])))
        [] e.k = "call"    -> evaluateCallExpr(P, r.m, e, vs)
        [] e.k = "method"  -> evaluateMethodCall(P, r.m, e, vs)
        [] e.k = "assign"  -> [m |-> evaluateAssignExpr(r.m, e, vs[1]), v |-> vs[1]]
        [] e.k = "array"   -> Value(VArray(vs))
        [] e.k = "struct"  -> Value(VStruct(Bind(<< >>, e.field, vs[1])))
        [] e.k = "member"  -> Value(Field(vs[1], e.field))
        [] e.k = "index"   -> Value(Element(vs[1], vs[2]))
        [] e.k = "range"   -> Value(VArray(RangeOf(vs[1], vs[2])))
        [] e.k = "ternary" -> Run(P, r.m, IF isTruthy(vs[1]) THEN e.then ELSE e.else)

\* Mutant: the index of the pause is not saved.
executeBlockForgets(P, m, b) ==
  IF b.from > Len(b.stmts) THEN Done(m)
  ELSE LET r == Run(P, m, b.stmts[b.from])
       IN  IF r.state = "Paused" \/ r.signal # "None" THEN r
           ELSE Run(P, r.m, [b EXCEPT !.from = @ + 1])

\* The pause, Return, Break and Continue end the block.  A pause is remembered in
\* the top frame only when the block is that frame's body.
executeBlock(P, m, b) ==
  IF b.from > Len(b.stmts) THEN Done(m)
  ELSE LET r == Run(P, m, b.stmts[b.from])
       IN  IF r.state = "Paused"
           THEN IF r.m.stack # <<>> /\ Top(r.m).fn = b.fn
                THEN [r EXCEPT !.m.stack[Depth(r.m)].stmtIndex = b.from] ELSE r
           ELSE IF r.signal # "None" THEN r ELSE Run(P, r.m, [b EXCEPT !.from = @ + 1])

\* After one execution of a loop's body: leave the loop, or go on with it.
AfterBody(body, goOn) ==
  IF body.state = "Paused" \/ body.signal = "Return" THEN body
  ELSE IF body.signal = "Break" THEN Done(body.m) ELSE goOn

\* The rest of a `for`, over the elements not yet visited.
executeForFrom(P, m, s) ==
  IF s.elements = <<>> THEN Done(m)
  ELSE LET body == Run(P, setVariable(m, s.name, Head(s.elements)), Nested(s.body))
       IN  AfterBody(body, Run(P, body.m, [s EXCEPT !.elements = Tail(@)]))

SetLine(m, line) == IF m.stack = <<>> THEN m ELSE [m EXCEPT !.stack[Depth(m)].line = line]

\* The expression a statement begins with.
Subject(s) ==
  CASE s.k \in {"let", "return", "iflet"} -> s.value
    [] s.k = "expr" -> s.e
    [] s.k \in {"if", "while", "again"} -> s.cond
    [] s.k = "for" -> s.over

executeWhileStmt(P, m, s) ==
  LET body == Run(P, m, Nested(s.body))
  IN  AfterBody(body, Run(P, body.m, [s EXCEPT !.k = "again"]))

\* A statement after its pause check; `return` and `for` do not look at a pause of
\* the expression.
executeKind(P, m, s) ==
  IF s.k \in {"break", "continue"}
  THEN Result(m, "Running", IF s.k = "break" THEN "Break" ELSE "Continue", VNil)
  ELSE LET r == Run(P, m, Subject(s))
       IN  CASE s.k = "return" -> Result(r.m, "Running", "Return", r.v)
             [] s.k = "for" /\ r.v.kind = "Array" ->
                  Run(P, r.m, [k |-> "rest of for", name |-> s.name, body |-> s.body, elements |-> r.v.is])
             [] s.k = "for" /\ r.v.kind # "Array" -> Done(r.m)
             [] OTHER ->
                  UnlessPaused(r.m,
                    CASE s.k = "let"   -> Done(setVariable(r.m, s.name, r.v))
                      [] s.k = "expr"  -> Done(r.m)
                      [] s.k = "if"    -> Run(P, r.m, Nested(IF isTruthy(r.v) THEN s.then ELSE s.else))
                      [] s.k = "iflet" ->
                           Run(P, IF r.v.kind # "Nil" THEN setVariable(r.m, s.name, r.v) ELSE r.m,
                               Nested(IF r.v.kind # "Nil" THEN s.then ELSE s.else))
                      [] s.k \in {"while", "again"} ->
                           IF isTruthy(r.v) THEN executeWhileStmt(P, r.m, s) ELSE Done(r.m))

executeStatement(P, m, s) ==
  LET p == shouldPause(m, s.line)
      here == SetLine(p.m, s.line)
  IN  IF p.pause THEN Paused([here EXCEPT !.state = "Paused"])
      ELSE executeKind(P, [here EXCEPT !.trace = Append(@, s.line)], s)

Run(P, m, n) ==
  CASE n.k = "block" -> executeBlock(P, m, n)
    [] n.k = "again" -> executeKind(P, m, n)
    [] n.k = "rest of for" -> executeForFrom(P, m, n)
    [] n.k \in {"let", "expr", "return", "if", "iflet", "while", "for", "break", "continue"} ->
         executeStatement(P, m, n)
    [] OTHER -> evaluateExpr(P, m, n)

-----------------------------------------------------------------------------
(* load, start, resume. *)

Loaded(breakpoints) ==
  [stack |-> <<>>, state |-> "Terminated", stepMode |-> "Continue", stepFrameDepth |-> 0,
   breakpoints |-> breakpoints, outputBuffer |-> <<>>, stopReason |-> "", nextFrameId |-> 1,
   lastPausedLine |-> 0, resumeFromLine |-> 0, trace |-> <<>>]

start(m) == [PushFrame(m, CallFrame(m, "main", << >>)) EXCEPT !.state = "Paused"]

RECURSIVE RunFrames(_, _)

\* while (Running and there are frames): the top frame's block from its index;
\* whatever ends it, but for a pause, pops the frame.
RunFrames(P, m) ==
  IF m.stack = <<>> THEN [m EXCEPT !.state = "Terminated"]
  ELSE IF m.state # "Running" THEN m
  ELSE LET fn == Top(m).fn
           body == IF fn \in DOMAIN P.functions THEN P.functions[fn].body ELSE P.methods[fn].body
           r == Run(P, m, BlockFrom(fn, body, Top(m).stmtIndex))
       IN  IF r.state = "Paused" THEN r.m ELSE RunFrames(P, Pop(r.m))

resume(P, m, mode) ==
  RunFrames(P, [m EXCEPT !.stepMode = mode, !.stepFrameDepth = Depth(m), !.state = "Running",
                         !.stopReason = "", !.resumeFromLine = m.lastPausedLine])

\* What the program does when nobody debugs it.
PlainRun(P) == resume(P, start(Loaded(<<>>)), "Continue")
=============================================================================
