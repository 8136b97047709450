------------------------------ MODULE MCTraceRewrite ------------------------------
EXTENDS TraceRewrite

Here == <<Ident("trace_here"), Bang, Group(<<>>)>>
Log  == StmtMacro("log", <<Ident("a")>> \o <<Group(Here)>>)

(* Expressions one level deep, then the same inside each other.                     *)
Leaving(X) == {Try(x) : x \in X} \cup {Return(x) : x \in X} \cup {Ok(x) : x \in X}
Simple  == {Plain, Macro("other", <<Ident("a")>>)}
Nested  == Simple \cup Leaving(Simple)
Arms    == Nested \cup {Parts(<<x, y>>) : x \in Leaving({Plain}), y \in {Plain, Try(Plain)}}
           \cup {Loop(<<x>>) : x \in Leaving({Plain})}

(* select!: waits that can be read, then waits that cannot: a lone name, a call     *)
(* which could be a pattern, a guard.                                               *)
Wait    == <<Ident("a"), Sign("="), Ident("b")>>
Await   == <<Ident("a"), Sign("."), Ident("recv"), Group(Here)>>
Unread  == {<<Ident("default")>>, Here, Wait \o <<Sign(","), Ident("if"), Ident("c")>>}
SelectOf(x)    == <<Branch(Wait, <<x>>), Branch(Await, <<Log, Plain>>)>>
Statement(x)   == StmtMacro("select", SelectOf(x))

(* A select in a branch of another, as its statement and in a block; with a trace   *)
(* macro of its own as a statement.                                                 *)
Within(x) ==
  {<<Branch(Wait, <<Statement(x), y>>)>> : y \in {Plain, StmtMacro("trace_error", <<>>)}}
    \cup {<<Branch(Await, <<Parts(<<Block(<<Statement(x), Try(x)>>)>>)>>)>>}

Selected ==
  {Statement(x) : x \in Nested} \cup {Macro("select", SelectOf(x)) : x \in Leaving({Plain})}
  \cup {Try(Macro("select_biased", SelectOf(x))) : x \in Leaving({Plain})}
  \cup {StmtMacro("select", ts) : ts \in UNION {Within(x) : x \in Leaving({Plain})}}
  \cup {StmtMacro("select", <<Branch(Wait, <<Try(Plain)>>), Branch(w, <<Try(Plain)>>)>>) : w \in Unread}
  \cup {Return(Macro(name, <<>>)) : name \in Names} \cup {Macro(name, <<>>) : name \in Names}

MCItems ==
  {[returns |-> r, body |-> <<first, last>>] :
     r \in BOOLEAN, first \in {Log, Parts(<<Try(Plain)>>)}, last \in Arms \cup Leaving(Nested) \cup Selected}

(* What a function may log: comparisons and negations beside a trace macro.         *)
Logged ==
  {<<Ident("a"), Sign("="), Ident("b")>>,              \* a == b
   <<Ident("a"), Bang, Sign("="), Ident("b")>>,        \* a != b
   <<Ident("if"), Bang, Ident("a"), Group(<<>>)>>,           \* if !a { }
   <<Ident("format"), Bang, Group(<<Ident("a")>>)>>}
MCLogs ==
  {[returns |-> TRUE, body |-> <<StmtMacro("log", ts), Ok(Plain)>>] :
     ts \in Logged \cup {w \o Here : w \in Logged} \cup {Here \o <<Group(w)>> : w \in Logged}}
=================================================================================
