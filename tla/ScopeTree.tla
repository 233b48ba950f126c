------------------------------ MODULE ScopeTree -------------------------------
(***************************************************************************)
(* The scopes of the functions and the variable that each identifier       *)
(* stands for: FunctionDef::checkSemantics(), ScopeCreator.cpp, Scope.cpp. *)
(*                                                                         *)
(* A table is a sequence of scopes, each with the scope around it and its  *)
(* variables in order; <<s, i>> is variable i of scope s.                  *)
(***************************************************************************)
EXTENDS CallCode

Scope0(parent) == [parent |-> parent, vars |-> <<>>]
Entry(name, type, param) == [name |-> name, type |-> type, param |-> param]

(* Scope::getVariableDeclaration(id, true) *)
RECURSIVE Found(_, _, _)
Found(table, s, name) ==
  LET mine == {i \in DOMAIN table[s].vars : table[s].vars[i].name = name}
  IN  CASE mine # {} -> <<s, Min(mine)>>
        [] table[s].parent # 0 -> Found(table, table[s].parent, name)
        [] OTHER -> <<>>

IsDeclared(table, s, name) == \E i \in DOMAIN table[s].vars : table[s].vars[i].name = name

(* Scope::declareVariable(); a second one of the same name is an error.    *)
DeclareVariable(table, s, entry) ==
  IF IsDeclared(table, s, entry.name) THEN table
  ELSE [table EXCEPT ![s].vars = Append(@, entry)]

Visit(node, s, table, ok) == [node |-> node, scope |-> s, table |-> table, ok |-> ok]

(* ScopeCreator::privateOpen(): all the variables of a declaration are     *)
(* declared before any of their initializers is seen.                      *)
RECURSIVE DeclareAll(_, _, _)
DeclareAll(table, s, kids) ==
  IF kids = <<>> THEN table
  ELSE DeclareAll(DeclareVariable(table, s, Entry(Left(Head(kids)).v, Left(Head(kids)).type, FALSE)), s, Tail(kids))
Declaring(e, s, table, all) == Visit(e, s, all, Len(all[s].vars) = Len(table[s].vars) + Len(e.kids))
Naming(e, s, table, found) == Visit([e EXCEPT !.op = "var", !.v = found], s, table, found # <<>>)

OpenScope(e, s, table) ==
  CASE e.op = "block" ->
             Visit([e EXCEPT !.v = Len(table) + 1], Len(table) + 1, Append(table, Scope0(s)), TRUE)
        [] e.op = "declare" -> Declaring(e, s, table, DeclareAll(table, s, e.kids))
        [] e.op = "name" -> Naming(e, s, table, Found(table, s, e.v))
        [] e.op = "call" ->
             Visit([e EXCEPT !.v.pointer = IF ThroughVariable(e) THEN Found(table, s, @) ELSE <<>>], s, table, TRUE)
        [] OTHER -> Visit(e, s, table, TRUE)

(* FunctionCallExpr::checkSemantics(): a variable for what is returned, in *)
(* the scope of the call, after those of the program.                      *)
CheckSemantics(e, s, table) ==
  CASE e.op = "block" -> Visit(e, e.v, table, TRUE)
    [] e.op = "call" /\ PassesHiddenParam(e) ->
         Visit([e EXCEPT !.v.hidden = <<s, Len(table[s].vars) + 1>>], s,
               [table EXCEPT ![s].vars = Append(@, Entry("$", e.type, FALSE))], TRUE)
    [] OTHER -> Visit(e, s, table, TRUE)

(* Tree::iterate() with one of the functors.                               *)
RECURSIVE IteratedAll(_, _, _, _)
Closed(opened, inside, s) ==
  Visit([opened.node EXCEPT !.kids = inside.node], s, inside.table, opened.ok /\ inside.ok)
Entered(functor, opened, s) ==
  Closed(opened, IteratedAll(functor, opened.node.kids, opened.scope, opened.table), s)
Iterated(functor, e, s, table) ==
  Entered(functor, IF functor = "ScopeCreator" THEN OpenScope(e, s, table) ELSE CheckSemantics(e, s, table), s)

Joined(first, rest) == Visit(<<first.node>> \o rest.node, rest.scope, rest.table, first.ok /\ rest.ok)
Then(functor, first, kids, s) == Joined(first, IteratedAll(functor, kids, s, first.table))
IteratedAll(functor, kids, s, table) ==
  IF kids = <<>> THEN Visit(<<>>, s, table, TRUE)
  ELSE Then(functor, Iterated(functor, Head(kids), s, table), Tail(kids), s)

(* declareFormalParams(): what the function gets in a register is a        *)
(* variable like the others.                                               *)
ParamsOf(fd) ==
  LET hidden == IsClass(fd.result)
  IN  (IF fd.fpir /\ hidden THEN <<Entry("$hidden", Pointer(Void), FALSE)>> ELSE <<>>)
        \o [j \in DOMAIN fd.params |-> Entry(fd.names[j], fd.params[j], ~ (fd.fpir /\ j = 1 /\ ~ hidden))]

(* What FunctionDef::checkSemantics() rejects. *)
Accepted(fd) ==
  /\ fd.isISR => fd.params = <<>>
  /\ (fd.fpir /\ ~ IsClass(fd.result) /\ fd.params # <<>>) => (fd.params[1].bytes <= 2 /\ ~ IsClass(fd.params[1]))

(* The braces of a function have its scope. *)
AfterSemantics(fd, ok, checked) == [checked EXCEPT !.ok = ok /\ Accepted(fd)]
AfterScopes(fd, s, scoped) ==
  AfterSemantics(fd, scoped.ok, IteratedAll("SemanticsChecker", scoped.node, s, scoped.table))
CheckedFunction(fd, body, table) ==
  LET s == Len(table) + 1
      params == Append(table, [parent |-> 0, vars |-> ParamsOf(fd)])
  IN  AfterScopes(fd, s, IteratedAll("ScopeCreator", body, s, params))

RECURSIVE CheckedFrom(_, _, _)
Following(first, functions, bodies) == <<first>> \o CheckedFrom(functions, bodies, first.table)
CheckedFrom(functions, bodies, table) ==
  IF functions = <<>> THEN <<>>
  ELSE Following(CheckedFunction(Head(functions), TypedAll(Head(bodies)), table), Tail(functions), Tail(bodies))

Checked == CheckedFrom(Program, Bodies, <<>>)
Table == Last(Checked).table

-----------------------------------------------------------------------------
(* The variables in the frame. *)
RECURSIVE Dimensions(_)
Dimensions(t) ==
  IF t.kind # "array" THEN <<>>
  ELSE <<IF t.bytes = 0 THEN 0 ELSE t.bytes \div Pointed(t).bytes>> \o Dimensions(Pointed(t))

RECURSIVE ElementBytes(_)
ElementBytes(t) == IF t.kind = "array" THEN ElementBytes(Pointed(t)) ELSE t.bytes

Laid(entry) == [dims |-> Dimensions(entry.type), element |-> ElementBytes(entry.type), param |-> entry.param]

(* Declaration::getFrameDisplacementArg(): an identifier has the           *)
(* displacement of its declaration; a function returns a structure to the  *)
(* address that it was given, which is at displacement returned.           *)
DisplacementOf(v, places) == IF v \in DOMAIN places THEN places[v] ELSE 0

Placing(e, places, returned) ==
  CASE e.op = "var" -> [e EXCEPT !.v = DisplacementOf(@, places)]
    [] e.op = "call" -> [e EXCEPT !.v.pointer = DisplacementOf(@, places), !.v.hidden = DisplacementOf(@, places)]
    [] e.op = "return" -> [e EXCEPT !.v.at = returned]
    [] OTHER -> e

RECURSIVE LocatedAll(_, _, _)
Located(e, places, returned) == [Placing(e, places, returned) EXCEPT !.kids = LocatedAll(@, places, returned)]
LocatedAll(kids, places, returned) ==
  IF kids = <<>> THEN <<>>
  ELSE <<Located(Head(kids), places, returned)>> \o LocatedAll(Tail(kids), places, returned)
===============================================================================
