--------------------------------- MODULE Dsl ---------------------------------
(***************************************************************************)
(* The compiler of the Synapse language (dsl/): lexer, parser, files.      *)
(* The source comes piece by piece (a word, a bracket, a quote, the end of *)
(* a line); a piece ends at most one token and the parser looks at one     *)
(* token at a time, so they run in step here, where the code makes all     *)
(* tokens first.  Of an identifier two names are told apart.               *)
(***************************************************************************)
EXTENDS Integers, Sequences, SequencesExt

CONSTANTS
    MaxNodes,        \* bound: nodes of a source
    MaxTaken,        \* bound: braces that are taken for names
    NoNode

VARIABLES
    mode,            \* where the lexer is: plain, in a string, after its backslash, in a comment, in a prompt
    braces,          \* depth of readPromptBlock()
    lastToken,       \* tokens[tokens.length - 1], as far as the lexer looks at it
    stack,           \* the parse functions that run, innermost last: rule, id and what they expect
    nodes,           \* the nodes parsed
    status,          \* reading, rejected, fallback, writing, compiled or failed
    opened,          \* history: braces opened and not closed among the tokens
    bracesTaken,     \* history: those among them that were taken for a name or in a condition
    output,          \* how the files are written, none before
    written,         \* written
    outFiles         \* path -> the index of the node its file was made of

lexVars == <<mode, braces, lastToken>>
outVars == <<output, written, outFiles>>
dslVars == <<lexVars, stack, nodes, status, opened, bracesTaken, outVars>>

\* KEYWORDS: "property" stands for those that only name a property of an agent.
Keywords == {"agent", "workflow", "pipeline", "step", "when", "trigger", "action", "requires", "on-fail",
             "parallel", "then", "prompt", "tools", "request", "notify", "include", "property"}
Words == Keywords \cup {"x", "y", "escalate", "skip"}
Marks == {"{", "}", "[", "]", ",", "->"}
Pieces == Words \cup Marks \cup {"newline", "quote", "backslash", "comment", "other character", "end"}
Kinds == {"agent", "workflow", "pipeline"}
Rules == Kinds \cup {"step", "stage", "handler", "list"}
Expected == {"name", "{", "[", "->", "string", "on-fail", "value", "prompt", "target", "condition", "more", "comma"}
Ways == {"cli json", "cli md", "cli both", "compile"}
Paths == [kind : Kinds, id : {"x", "y"}, form : {"json", "md"}]

DslTypeOK ==
    /\ mode \in {"plain", "string", "backslash", "comment", "prompt"} /\ braces \in 0..2
    /\ lastToken \in {"newline", "{", "prompt", "other"}
    /\ \A i \in DOMAIN stack : /\ stack[i].rule \in Rules /\ stack[i].id \in {"x", "y"}
                               /\ ToSet(stack[i].needs) \subseteq Expected
    /\ Len(nodes) <= MaxNodes /\ ToSet(nodes) \subseteq [kind : Kinds, id : {"x", "y"}]
    /\ status \in {"reading", "rejected", "fallback", "writing", "compiled", "failed"}
    /\ bracesTaken \in -MaxTaken..MaxTaken /\ opened \in Int
    /\ output \in Ways \cup {"none"}
    /\ \A i \in DOMAIN written : written[i].path \in Paths /\ written[i].node \in 1..MaxNodes
    /\ outFiles \in [Paths -> {NoNode} \cup 1..MaxNodes]

DslInit ==
    /\ mode = "plain" /\ braces = 0 /\ lastToken = "other"
    /\ stack = <<>> /\ nodes = <<>> /\ status = "reading" /\ opened = 0 /\ bracesTaken = 0
    /\ output = "none" /\ written = <<>> /\ outFiles = [p \in Paths |-> NoNode]

-----------------------------------------------------------------------------
(* The parser: what a token does to the functions that run *)

Top(s) == s[Len(s)]
Enter(s, rule, needs) == Append(s, [rule |-> rule, id |-> "y", needs |-> needs])
Needing(s, needs) == [s EXCEPT ![Len(s)].needs = needs]

\* What a token leads to in the body of each rule, nothing when it is an error there: what
\* is expected next, or a rule of its own and what that expects.
Then(needs) == {[rule |-> "same", needs |-> needs]}
Within(rule, needs) == {[rule |-> rule, needs |-> needs]}

InSource(t) == IF t \in Kinds THEN Within(t, <<"name", "{">>) ELSE {}
InAgent(t) ==
    CASE t = "prompt" -> Then(<<"prompt">>)
      [] t = "tools" -> Within("list", <<"[">>)
      [] t = "when" -> Within("handler", <<"condition">>)
      [] t \in Keywords \ {"prompt", "tools", "when"} -> Then(<<"value">>)
      [] OTHER -> {}
InWorkflow(t) ==
    CASE t = "trigger" -> Then(<<"string">>)
      [] t = "step" -> Within("step", <<"name", "{">>)
      [] OTHER -> {}
InStep(t) ==
    CASE t \in {"agent", "requires"} -> Then(<<"name">>)
      [] t = "action" -> Then(<<"string">>)
      [] t = "on-fail" -> Then(<<"on-fail">>)
      [] OTHER -> {}
InPipeline(t) == IF t \in {"parallel", "then"} THEN Within("stage", <<"{">>) ELSE {}
InStage(t) == IF t = "agent" THEN Then(<<"name", "->", "string">>) ELSE {}
InHandler(t) ==
    CASE t \in {"request", "notify"} -> Then(<<"name">>)
      [] t = "include" -> Then(<<"target">>)
      [] t = "escalate" -> Then(<<>>)
      [] OTHER -> {}
InList(t) == IF t \in Words \cup {"string"} THEN Then(<<"comma">>) ELSE {}

InBody(rule, t) ==
    CASE rule = "agent" -> InAgent(t)
      [] rule = "workflow" -> InWorkflow(t)
      [] rule = "step" -> InStep(t)
      [] rule = "pipeline" -> InPipeline(t)
      [] rule = "stage" -> InStage(t)
      [] rule = "handler" -> InHandler(t)
      [] rule = "list" -> InList(t)

ClosesBrace(rule) == "}"                                  \* seeded fault: a list ends at a brace
Closes(rule) == IF rule = "list" THEN "]" ELSE "}"

\* Whether a token is what a function expects: one line for each expect function.
Meets(need, t) ==
    CASE need = "name" -> t \in Words
      [] need = "value" -> t \in Words \cup {"string", "["}
      [] need = "on-fail" -> t \in {"escalate", "skip"}
      [] need = "prompt" -> t = "multiline"
      [] need = "target" -> t # "end"
      [] need = "condition" -> t \notin {"{", "newline", "end"}
      [] need = "more" -> t \notin {"newline", "end"}
      [] need = "comma" -> t = ","
      [] OTHER -> t = need

\* The stack after an expected token: a condition ends at its brace only, a value that is
\* a list is parsed by parseList().
Met(s, t) ==
    LET need == Head(Top(s).needs)
        named == IF need = "name" /\ t = "x" THEN [s EXCEPT ![Len(s)].id = "x"] ELSE s
    IN CASE need = "condition" -> Needing(s, <<"more">>)
         [] need = "more" -> IF t = "{" THEN Needing(s, <<>>) ELSE s
         [] need = "value" /\ t = "[" -> Enter(Needing(s, <<>>), "list", <<>>)
         [] OTHER -> Needing(named, Tail(Top(s).needs))

\* The stacks, none or one, a token leads to; an item's comma may be missing.
Settled(s, t) == IF Top(s).needs = <<"comma">> /\ t # "," THEN Needing(s, <<>>) ELSE s
Follow(s0, t) ==
    LET s == IF s0 = <<>> THEN s0 ELSE Settled(s0, t)
    IN CASE t = "newline" /\ (s = <<>> \/ Top(s).needs = <<>>) -> {s}
         [] s = <<>> /\ t # "newline" -> {Enter(s, e.rule, e.needs) : e \in InSource(t)}
         [] s # <<>> /\ Top(s).needs # <<>> -> IF Meets(Head(Top(s).needs), t) THEN {Met(s, t)} ELSE {}
         [] OTHER -> {IF e.rule = "same" THEN Needing(s, e.needs) ELSE Enter(s, e.rule, e.needs) :
                        e \in InBody(Top(s).rule, t)}
                     \cup IF t = Closes(Top(s).rule) THEN {Front(s)} ELSE {}

\* A token that is taken as it is, a brace too: the target of include, a condition.
TakenAsIs(t) ==
    /\ stack # <<>> /\ Top(stack).needs # <<>>
    /\ Head(Top(stack).needs) \in {"target", "condition"} \/ (Head(Top(stack).needs) = "more" /\ t # "{")
Turn(t) == CASE t = "{" -> 1 [] t = "}" -> -1 [] OTHER -> 0

\* parse() looks at the token; the end is only right between two nodes.
Parse(t) ==
    /\ opened' = opened + Turn(t)
    /\ bracesTaken' = bracesTaken + (IF TakenAsIs(t) THEN Turn(t) ELSE 0)
    /\ bracesTaken' \in -MaxTaken..MaxTaken /\ (stack = <<>> /\ t \in Kinds => Len(nodes) < MaxNodes)
    /\ IF t = "end" /\ stack = <<>> THEN status' = "writing" /\ output' \in Ways /\ UNCHANGED <<stack, nodes>>
       ELSE LET after == Follow(stack, t)
            IN UNCHANGED output /\ IF after = {}
               THEN /\ status' = IF stack # <<>> /\ Top(stack).needs = <<"prompt">> /\ t = "{"
                                 THEN "fallback" ELSE "rejected"
                    /\ UNCHANGED <<stack, nodes>>
               ELSE /\ stack' \in after /\ UNCHANGED status
                    /\ nodes' = IF Len(stack) = 1 /\ stack' = <<>>
                                THEN Append(nodes, [kind |-> stack[1].rule, id |-> stack[1].id]) ELSE nodes

-----------------------------------------------------------------------------
(* The lexer *)

Emit(t) == lastToken' = (IF t \in {"newline", "{", "prompt"} THEN t ELSE "other") /\ Parse(t)
NoToken == UNCHANGED <<lastToken, stack, nodes, status, opened, bracesTaken, output>>
LexError == status' = "rejected" /\ UNCHANGED <<lastToken, stack, nodes, opened, bracesTaken, output>>

\* A brace after the keyword prompt starts its text.
StartsPromptNever(c) == FALSE                             \* seeded fault: the text of a prompt is lexed as code
StartsPrompt(c) == c = "{" /\ lastToken = "prompt"

\* tokenize() outside of strings, prompts and comments.
PlainPiece(c) ==
    /\ mode = "plain" /\ UNCHANGED <<written, outFiles>>
    /\ \/ c \in Words \cup Marks \cup {"end"} /\ ~StartsPrompt(c) /\ Emit(c) /\ UNCHANGED <<mode, braces>>
       \/ StartsPrompt(c) /\ mode' = "prompt" /\ braces' = 1 /\ NoToken
       \/ /\ c = "newline" /\ UNCHANGED <<mode, braces>>  \* not after another and not after a brace
          /\ IF lastToken \in {"newline", "{"} THEN NoToken ELSE Emit("newline")
       \/ c = "quote" /\ mode' = "string" /\ UNCHANGED braces /\ NoToken
       \/ c = "comment" /\ mode' = "comment" /\ UNCHANGED braces /\ NoToken
       \/ c \in {"backslash", "other character"} /\ LexError /\ UNCHANGED <<mode, braces>>

\* readString()
StringPiece(c) ==
    /\ mode \in {"string", "backslash"} /\ UNCHANGED <<braces, written, outFiles>>
    /\ \/ c = "end" /\ LexError /\ UNCHANGED mode
       \/ c # "end" /\ mode = "backslash" /\ mode' = "string" /\ NoToken
       \/ c = "backslash" /\ mode = "string" /\ mode' = "backslash" /\ NoToken
       \/ c = "quote" /\ mode = "string" /\ mode' = "plain" /\ Emit("string")
       \/ c \notin {"end", "backslash", "quote"} /\ mode = "string" /\ UNCHANGED mode /\ NoToken

\* readPromptBlock(): braces count, in quotes too.  Bound: one pair inside.
PromptPiece(c) ==
    /\ mode = "prompt" /\ UNCHANGED <<written, outFiles>>
    /\ \/ c = "end" /\ LexError /\ UNCHANGED <<mode, braces>>
       \/ c = "{" /\ braces < 2 /\ braces' = braces + 1 /\ UNCHANGED mode /\ NoToken
       \/ c = "}" /\ braces' = braces - 1
          /\ IF braces = 1 THEN mode' = "plain" /\ Emit("multiline") ELSE UNCHANGED mode /\ NoToken
       \/ c \notin {"end", "{", "}"} /\ UNCHANGED <<mode, braces>> /\ NoToken

\* readComment(): the newline is read by the next turn.
CommentPiece(c) ==
    /\ mode = "comment" /\ UNCHANGED <<braces, written, outFiles>>
    /\ \/ c = "newline" /\ mode' = "plain" /\ (IF lastToken \in {"newline", "{"} THEN NoToken ELSE Emit(c))
       \/ c = "end" /\ mode' = "plain" /\ Emit(c)
       \/ c \notin {"newline", "end"} /\ UNCHANGED mode /\ NoToken

Piece(c) == status = "reading" /\ (PlainPiece(c) \/ StringPiece(c) \/ PromptPiece(c) \/ CommentPiece(c))

-----------------------------------------------------------------------------
(* The files *)

File(n, form) == [node |-> n, path |-> [kind |-> nodes[n].kind, id |-> nodes[n].id, form |-> form]]
AgentFiles == SelectSeq([n \in DOMAIN nodes |-> File(n, "md")], LAMBDA f : f.path.kind = "agent")

\* The order of the writes: compile() takes node after node, the CLI writes all JSON
\* files before the first agent file.
JobsBackwards == Reverse([n \in DOMAIN nodes |-> File(n, "json")])  \* seeded fault: the last node is written first
Jobs ==
    LET json == [n \in DOMAIN nodes |-> File(n, "json")]
        both(n) == IF nodes[n].kind = "agent" THEN <<File(n, "md"), File(n, "json")>> ELSE <<File(n, "json")>>
    IN CASE output = "cli json" -> json
         [] output = "cli md" -> AgentFiles
         [] output = "cli both" -> json \o AgentFiles
         [] output = "compile" -> FlattenSeq([n \in DOMAIN nodes |-> both(n)])

WriteNext ==
    /\ status = "writing" /\ UNCHANGED <<lexVars, stack, nodes, opened, bracesTaken, output>>
    /\ IF Len(written) = Len(Jobs) THEN status' = "compiled" /\ UNCHANGED <<written, outFiles>>
       ELSE LET job == Jobs[Len(written) + 1]
            IN \/ /\ written' = Append(written, job) /\ UNCHANGED status
                  /\ outFiles' = [outFiles EXCEPT ![job.path] = job.node]
               \/ status' = "failed" /\ UNCHANGED <<written, outFiles>>

DslNext == WriteNext \/ \E c \in Pieces : Piece(c)

-----------------------------------------------------------------------------
(* Properties *)

\* Every function of the parser that has read its opening brace owes exactly one closing
\* one, so what is accepted is well nested, but for the braces that were taken for the
\* target of an include or the words of a condition; the parser never meets the brace of a
\* prompt, whose text the lexer has made one token (parsePromptBlock's way without it).
WellNested ==
    LET inside == SelectSeq(stack, LAMBDA f : /\ f.rule # "list"
                                              /\ ToSet(f.needs) \cap {"{", "condition", "more"} = {})
    IN /\ status \in {"reading", "writing"} => opened = Len(inside) + bracesTaken
       /\ status = "writing" => stack = <<>> /\ mode # "prompt"
       /\ status # "fallback"

\* When all files are written each holds the last node of its kind and name, whatever the
\* way they are written in, and no node is without its file (main(), compile()).
FilesOfNodes ==
    status = "compiled" =>
        \A n \in DOMAIN nodes :
            LET later == {m \in DOMAIN nodes : nodes[m] = nodes[n] /\ m > n}
                file(form) == outFiles[File(n, form).path]
            IN later = {} => /\ (output # "cli md" => file("json") = n)
                             /\ (output # "cli json" /\ nodes[n].kind = "agent" => file("md") = n)
=============================================================================
