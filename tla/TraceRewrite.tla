------------------------------ MODULE TraceRewrite --------------------------------
(* #[trace_result] of trace-error/proc-macro: the attribute rewrites a function so  *)
(* that every error that leaves it carries the place it left by, and replaces the   *)
(* macros trace_here!, trace_error!, trace_fmt! and fmt_error! in its body.  The    *)
(* client's worker and glue are compiled through it.                                *)
(*                                                                                  *)
(* A function is its body, a sequence of statements, and whether it returns         *)
(* anything.  A statement is its expression; a let, an if, a match, a call or a     *)
(* closure is its parts.  The arguments of a macro are token trees, which nobody    *)
(* but the macro knows how to read; those of select! are branches, whose bodies are *)
(* code.                                                                            *)
EXTENDS Naturals, Sequences

CONSTANTS Items      \* functions the attribute stands on

VARIABLES item,      \* the function as written
          expanded   \* what it becomes: {} or {function}

rewriteVars == <<item, expanded>>

Names   == {"trace_here", "trace_error", "trace_fmt", "fmt_error"}
Selects == {"select", "select_biased"}

(* Token trees.                                                                     *)
Ident(name) == [t |-> "ident", name |-> name]
Sign(c)     == [t |-> c]                             \* other tokens: = . , ==
Bang        == Sign("!")
Group(ts)   == [t |-> "group", in |-> ts]
Branch(head, body) == [t |-> "branch", head |-> head, body |-> body]
Generated(name)    == [t |-> "generated", of |-> name]

(* Expressions.                                                                     *)
Plain         == [e |-> "plain"]
Ok(x)         == [e |-> "ok", in |-> <<x>>]
Try(x)        == [e |-> "try", in |-> <<x>>]
Return(x)     == [e |-> "return", in |-> <<x>>]
Parts(xs)     == [e |-> "parts", in |-> xs]
Block(stmts)  == [e |-> "block", in |-> stmts]
Loop(stmts)   == [e |-> "loop", in |-> <<Block(stmts)>>]
Traced(x)     == [e |-> "traced", in |-> <<x>>]      \* (x).with_context(...)
Macro(path, tokens)     == [e |-> "macro", path |-> path, in |-> tokens, stmt |-> FALSE]
StmtMacro(path, tokens) == [Macro(path, tokens) EXCEPT !.stmt = TRUE]  \* select! { .. } or log!(..);

-------------------------------------------------------------------------------
(* replace_token: the first token of a stream, what it becomes and what is left.    *)
(* After a name and a '!' the next token is taken, group or not; the one that is    *)
(* not is forgotten.  To the scan the code in a branch is tokens like any other     *)
(* (ReplaceCode): macros are found in it at any depth, statements or not.           *)
RECURSIVE ReplaceToken(_), ReplaceCode(_)
ReplaceToken(ts) ==
  IF ts = <<>> THEN [out |-> <<>>, replaced |-> FALSE]
  ELSE LET called  == ts[1].t = "ident" /\ Len(ts) > 1 /\ ts[2].t = "!"
           grouped == called /\ Len(ts) > 2 /\ ts[3].t = "group"
           taken   == IF called THEN (IF Len(ts) > 2 THEN 3 ELSE 2) ELSE 1
           body    == IF ts[1].t = "branch"
                      THEN [i \in DOMAIN ts[1].body |-> ReplaceCode(ts[1].body[i])] ELSE <<>>
           inside  == CASE grouped -> ReplaceToken(ts[3].in)
                        [] ts[1].t = "group"  -> ReplaceToken(ts[1].in)
                        [] ts[1].t = "branch" -> ReplaceToken(ts[1].head)
                        [] OTHER -> [out |-> <<>>, replaced |-> FALSE]
           known   == grouped /\ ts[1].name \in Names
           first   == CASE known   -> <<Generated(ts[1].name)>>
                        [] grouped /\ ~known -> <<ts[1], Bang, Group(inside.out)>>
                        [] called /\ ~grouped -> <<ts[1], Bang>>
                        [] ts[1].t = "group" -> <<Group(inside.out)>>
                        [] ts[1].t = "branch" ->
                             <<Branch(inside.out, [i \in DOMAIN body |-> body[i].out])>>
                        [] OTHER -> <<ts[1]>>
           rest    == ReplaceToken(SubSeq(ts, taken + 1, Len(ts)))
       IN  [out |-> first \o rest.out,
            replaced |-> \/ known \/ inside.replaced \/ rest.replaced
                         \/ \E i \in DOMAIN body : body[i].replaced]
ReplaceCode(x) ==
  LET tokens == ReplaceToken(x.in)
      parts  == [i \in DOMAIN x.in |-> ReplaceCode(x.in[i])]
  IN  CASE x.e = "macro" /\ x.path \in Names ->
             [out |-> [e |-> "generated", of |-> x.path], replaced |-> TRUE]
        [] x.e = "macro" /\ x.path \notin Names ->
             [out |-> [x EXCEPT !.in = tokens.out], replaced |-> tokens.replaced]
        [] x.e \in {"plain", "generated"} -> [out |-> x, replaced |-> FALSE]
        [] OTHER -> [out |-> [x EXCEPT !.in = [i \in DOMAIN parts |-> parts[i].out]],
                     replaced |-> \E i \in DOMAIN parts : parts[i].replaced]

(* try_replace: a macro that is not replaced keeps its tokens as they were.         *)
ReplaceMacro(mac) ==
  LET tokens == ReplaceToken(mac.in)
  IN  IF mac.path \in Names THEN [e |-> "generated", of |-> mac.path]
      ELSE IF tokens.replaced THEN Macro(mac.path, tokens.out)
      ELSE mac

(* Select::parse_me: of a branch, pattern = expression or expression before the     *)
(* arrow, and a block after it.  What could be a pattern and is followed by the     *)
(* arrow is not read, as the arrow begins with a '=': a name, a call, also default  *)
(* and complete; nor is a guard.                                                    *)
Readable(branch) ==
  /\ branch.t = "branch"
  /\ LET signs == {branch.head[i].t : i \in DOMAIN branch.head}
     IN  signs \cap {"=", "."} # {} /\ "," \notin signs

Read(mac) == mac.path \in Selects /\ \A i \in DOMAIN mac.in : Readable(mac.in[i])

RECURSIVE FoldExpr(_, _), FoldBlock(_, _)

(* attach_mac: the bodies of a select that can be read are folded like other blocks *)
(* of the function, but without the second look at statements that are macros.      *)
AttachMac(mac, returns) ==
  IF Read(mac)
  THEN [mac EXCEPT !.in = [i \in DOMAIN mac.in |->
          [mac.in[i] EXCEPT !.body = [j \in DOMAIN mac.in[i].body |->
                                        FoldExpr(mac.in[i].body[j], returns)]]]]
  ELSE mac

Rewritten(mac, returns) == ReplaceMacro(AttachMac(mac, returns))

(* What a trace macro expands to is a macro again (concat!, format_args!), and only *)
(* trace_error! a method call.                                                      *)
ByMacro(x) == x.e = "generated" /\ x.of # "trace_error"

(* try_attach_expr.                                                                 *)
TryAttachUnchecked(x, returns) ==    \* defective variant: functions without a result, too
  CASE x.e = "macro" -> Rewritten(x, returns)
    [] ByMacro(x) \/ x.e = "ok" -> x
    [] OTHER -> Traced(x)

TryAttach(x, returns) ==
  CASE x.e = "macro" -> Rewritten(x, returns)
    [] x.e # "macro" /\ (~returns \/ ByMacro(x) \/ x.e = "ok") -> x
    [] OTHER -> Traced(x)

(* fold_expr, fold_expr_try and fold_expr_return.                                   *)
FoldExpr(x, returns) ==
  CASE x.e = "macro" -> IF x.stmt THEN x ELSE Rewritten(x, returns)
    [] x.e = "block" -> Block(FoldBlock(x.in, returns))
    [] x.e \in {"try", "return"} ->
         [x EXCEPT !.in = [i \in DOMAIN x.in |-> TryAttach(FoldExpr(x.in[i], returns), returns)]]
    [] x.e \in {"ok", "parts", "loop", "traced"} ->
         [x EXCEPT !.in = [i \in DOMAIN x.in |-> FoldExpr(x.in[i], returns)]]
    [] OTHER -> x

(* fold_block: then, once more, the macros that are statements.                     *)
FoldBlock(stmts, returns) ==
  LET folded == [i \in DOMAIN stmts |-> FoldExpr(stmts[i], returns)]
  IN  [i \in DOMAIN stmts |-> IF folded[i].e = "macro" THEN Rewritten(folded[i], returns) ELSE folded[i]]

(* attach_last_stmt.                                                                *)
AttachLast(x, returns) ==
  IF x.e \in {"return", "loop"} \/ (x.e = "macro" /\ x.stmt) THEN x ELSE TryAttach(x, returns)

AttachFunction(f) ==
  LET body == FoldBlock(f.body, f.returns)
  IN  [f EXCEPT !.body = [i \in DOMAIN body |->
         IF i = Len(body) THEN AttachLast(body[i], f.returns) ELSE body[i]]]

RewriteInit == item \in Items /\ expanded = {}
Expand == expanded = {} /\ expanded' = {AttachFunction(item)} /\ UNCHANGED item
RewriteNext == Expand
RewriteSpec == RewriteInit /\ [][RewriteNext]_rewriteVars

-------------------------------------------------------------------------------
(* Properties.                                                                      *)

(* The function without what the attribute adds, and with its macros written out.   *)
RECURSIVE Without(_), Unreplaced(_)
Unreplaced(ts) ==
  IF ts = <<>> THEN <<>>
  ELSE (CASE ts[1].t = "generated" -> <<Ident(ts[1].of), Bang, Group(<<>>)>>
          [] ts[1].t = "group"     -> <<Group(Unreplaced(ts[1].in))>>
          [] ts[1].t = "branch"    ->
               <<Branch(Unreplaced(ts[1].head), [i \in DOMAIN ts[1].body |-> Without(ts[1].body[i])])>>
          [] OTHER -> <<ts[1]>>) \o Unreplaced(Tail(ts))
Without(x) ==
  CASE x.e = "traced"    -> Without(x.in[1])
    [] x.e = "generated" -> [e |-> "macro", path |-> x.of, in |-> <<>>]
    [] x.e = "macro"     -> [e |-> "macro", path |-> x.path, in |-> Unreplaced(x.in)]
    [] x.e = "plain"     -> x
    [] OTHER -> [x EXCEPT !.in = [i \in DOMAIN x.in |-> Without(x.in[i])]]

(* Where an error may leave: the operands of ? and of return, wherever they are but *)
(* in the tokens of a macro.  Of a select that can be read they are looked for in   *)
(* the bodies, statements that are macros excepted.                                 *)
RECURSIVE Exits(_)
Exits(x) ==
  LET bodies == {x.in[i].body : i \in DOMAIN x.in}
      code   == UNION {{b[j] : j \in DOMAIN b} : b \in bodies}
      within == CASE x.e = "macro" /\ Read(x) ->
                       UNION {Exits(y) : y \in {z \in code : z.e # "macro" \/ ~z.stmt}}
                  [] x.e = "macro" /\ ~Read(x) -> {}
                  [] x.e \in {"plain", "generated"} -> {}
                  [] OTHER -> UNION {Exits(x.in[i]) : i \in DOMAIN x.in}
  IN  within \cup (IF x.e \in {"try", "return"} THEN {x.in[1]} ELSE {})

HasPlace(x) == x.e \in {"traced", "ok", "macro", "generated"}

(* An error does not leave the function without its place, by whatever ?, return or *)
(* last expression, also out of the branches of a select!, an Ok and a macro        *)
(* excepted; a function that returns nothing gets none; and nothing else of the     *)
(* function changes, whatever macros it has.  Three things are left out, where the  *)
(* code does not attach or changes more: a select! that is itself a statement of a  *)
(* branch of another (not of a block in it) and one parse_me cannot read keep their *)
(* exits as written, and a '!' that is an operator loses its operand (TokensCopied).*)
PlacesAttached ==
  \A f \in expanded :
    /\ [i \in DOMAIN f.body |-> Without(f.body[i])] = [i \in DOMAIN item.body |-> Without(item.body[i])]
    /\ LET last  == f.body[Len(f.body)]
           exits == UNION {Exits(f.body[i]) : i \in DOMAIN f.body}
       IN  IF f.returns
           THEN (\A x \in exits : HasPlace(x)) /\ (HasPlace(last) \/ last.e \in {"return", "loop"})
           ELSE last.e # "traced" /\ \A x \in exits : x.e # "traced"

(* Tokens of a macro that is not one of the four are copied, as the comment at the  *)
(* end of replace_token says.                                                       *)
TokensCopied ==
  \A f \in expanded :
    [i \in DOMAIN f.body |-> Without(f.body[i])] = [i \in DOMAIN item.body |-> Without(item.body[i])]
=================================================================================
