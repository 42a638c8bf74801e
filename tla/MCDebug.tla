------------------------------ MODULE MCDebug ------------------------------
(***************************************************************************)
(* Programs, breakpoints and watches for DebugSession.                      *)
(***************************************************************************)
EXTENDS DebugSession

Lit(n) == [k |-> "lit", v |-> VInt(n)]
Var(x) == [k |-> "var", name |-> x]
Bin(l, op, r) == [k |-> "binary", op |-> op, l |-> l, r |-> r]
Index(l, r) == [k |-> "index", l |-> l, r |-> r]
CallOf(f, args) == [k |-> "call", fn |-> f, args |-> args]
Method(x, f, args) == [k |-> "method", object |-> x, fn |-> f, args |-> args]
Assign(x, op, e) == [k |-> "assign", name |-> x, op |-> op, value |-> e]
SetField(x, f, e) == [k |-> "assign", name |-> x, op |-> ".", field |-> f, value |-> e]
Let(line, x, e) == [k |-> "let", line |-> line, name |-> x, value |-> e]
Do(line, e) == [k |-> "expr", line |-> line, e |-> e]
PrintLn(line, e) == Do(line, CallOf("println", <<e>>))
Ret(line, e) == [k |-> "return", line |-> line, value |-> e]
If(line, c, then, else) == [k |-> "if", line |-> line, cond |-> c, then |-> then, else |-> else]
For(line, x, e, body) == [k |-> "for", line |-> line, name |-> x, over |-> e, body |-> body]
WhileDo(line, c, body) == [k |-> "while", line |-> line, cond |-> c, body |-> body]
Fn(params, body) == [params |-> params, body |-> body]

\* A call that another call's result is added to, a loop over a range, an array.
Calls ==
  [functions |->
     [main |-> Fn(<<>>, <<Let(1, "x", Lit(1)),
                          Let(2, "y", Bin(CallOf("add", <<Var("x"), Lit(2)>>), "+", CallOf("twice", <<Var("x")>>))),
                          For(3, "i", [k |-> "range", l |-> Lit(0), r |-> Lit(2)],
                              <<If(4, Bin(Var("i"), "==", Lit(1)), <<[k |-> "break", line |-> 5]>>, <<>>),
                                PrintLn(6, Var("i"))>>),
                          PrintLn(7, Var("y"))>>),
      add |-> Fn(<<"a", "b">>, <<Let(8, "x", Bin(Var("a"), "+", Var("b"))), Ret(9, Var("x"))>>),
      twice |-> Fn(<<"a">>, <<Ret(10, CallOf("add", <<Var("a"), Var("a")>>))>>)],
   methods |-> << >>]

\* A recursive function.
Recursion ==
  [functions |->
     [main |-> Fn(<<>>, <<Let(1, "n", Lit(2)),
                          PrintLn(2, CallOf("fact", <<Var("n")>>)),
                          [k |-> "iflet", line |-> 7, name |-> "z", value |-> Var("n"), else |-> <<>>,
                           then |-> <<PrintLn(8, [k |-> "ternary", cond |-> Bin(Var("z"), "<", Lit(1)),
                                                  then |-> Lit(0), else |-> Var("z")])>>]>>),
      fact |-> Fn(<<"n">>, <<If(3, Bin(Var("n"), "<", Lit(2)), <<Ret(4, Lit(1))>>, <<>>),
                             Let(5, "r", CallOf("fact", <<Bin(Var("n"), "-", Lit(1))>>)),
                             Ret(6, Bin(Var("n"), "*", Var("r")))>>)],
   methods |-> << >>]

\* A structure whose method changes it, an array, and a while loop.
Objects ==
  [functions |->
     [main |-> Fn(<<>>, <<Let(1, "x", [k |-> "struct", field |-> "n", e |-> Lit(0)]),
                          Let(2, "l", [k |-> "array", es |-> <<Lit(1)>>]),
                          WhileDo(3, Bin([k |-> "member", e |-> Var("x"), field |-> "n"], "<", Lit(2)),
                                  <<Do(4, Method("x", "bump", <<Lit(1)>>)),
                                    Do(5, Method("l", "push", <<[k |-> "member", e |-> Var("x"), field |-> "n"]>>))>>),
                          PrintLn(8, CallOf("len", <<Var("l")>>)),
                          PrintLn(9, Index(Var("l"), Lit(2)))>>)],
   methods |->
     [bump |-> Fn(<<"by">>, <<Do(6, SetField("self", "n",
                       Bin([k |-> "member", e |-> Var("self"), field |-> "n"], "+", Var("by"))))>>)
               @@ [mutSelf |-> TRUE]]]

MCPrograms == [calls |-> Calls, recursion |-> Recursion, objects |-> Objects]

Bp(line) == [line |-> line, hitCondition |-> <<>>, condition |-> <<>>, logMessage |-> <<>>]

MCBreakpointSets ==
  { <<>>, <<Bp(2)>>, <<Bp(3), Bp(7)>>,
    <<[Bp(8) EXCEPT !.hitCondition = <<"==", 1>>], [Bp(10) EXCEPT !.hitCondition = <<">=", 1>>]>>,
    <<[Bp(7) EXCEPT !.condition = <<"x", "<", "2">>], [Bp(3) EXCEPT !.logMessage = <<"x">>]>>,
    <<[Bp(4) EXCEPT !.hitCondition = <<"", 2>>]>> }

\* The text of an expression, with the parentheses the precedences ask for.
Precedence == << {"||"}, {"&&"}, {"==", "<", "<="}, {"+", "-"}, {"*", "%"} >>

RECURSIVE Text(_, _)
Text(e, level) ==
  CASE e.k = "lit" -> <<<<"0", "1", "2">>[e.v.is + 1]>>
    [] e.k = "var" -> <<e.name>>
    [] e.k = "not" -> <<"!">> \o Text(e.e, Len(Precedence) + 1)
    [] e.k = "index" -> Text(e.l, Len(Precedence) + 1) \o <<"[">> \o Text(e.r, 1) \o <<"]">>
    [] e.k = "binary" ->
         LET own == CHOOSE i \in 1 .. Len(Precedence) : e.op \in Precedence[i]
             text == Text(e.l, own) \o <<e.op>> \o Text(e.r, own + 1)
         IN  IF own < level THEN <<"(">> \o text \o <<")">> ELSE text

Differences == {Bin(Bin(Lit(2), "-", Lit(1)), "-", Lit(1)), Bin(Lit(2), "-", Bin(Lit(2), "-", Lit(1)))}
Products == {Bin(Lit(2), "+", Bin(Lit(2), "*", Lit(2))), Bin(Bin(Lit(2), "+", Lit(2)), "%", Lit(2))}
Less == Bin(Lit(1), "<", Bin(Lit(1), "+", Lit(1)))
More == Bin(Lit(2), "<", Lit(1))
Formulas == {Bin(Less, "||", Bin(Less, "&&", More)), Bin([k |-> "not", e |-> Bin(Less, "||", More)], "||", Less)}
Locals == {Var("x"), Var("n"), Index(Var("l"), Bin(Lit(2), "-", Lit(1)))}

MCWatches == {<<Text(e, 1), e>> : e \in Differences \cup Products \cup Formulas \cup Locals}
=============================================================================
