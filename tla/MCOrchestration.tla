--------------------------- MODULE MCOrchestration ---------------------------
(***************************************************************************)
(* A small instance of Orchestration: messages of the chat and of another     *)
(* channel, one of them with a subagent, in one session and in their own.      *)
(***************************************************************************)
EXTENDS Orchestration, TLC

CONSTANTS echo, read, write, s1, a1

MCMessage(web, session, subs, attached) ==
    [web |-> web, session |-> session, subs |-> subs, attached |-> attached]

BuilderWants(tools) == <<[role |-> "builder", tools |-> tools]>>

MCMessages ==
    {MCMessage(TRUE, s1, BuilderWants({echo, write}), {a1}),
     MCMessage(FALSE, s1, <<>>, {})}

MCSymmetry == Permutations(Requests)

\* Only one of the requests calls tools: calls are counted by run, and change nothing
\* of what the other requests read.
OneCalls ==
    \A q, r \in Requests : q # r =>
        \A p, o \in Parts : called[<<q, p>>] = <<>> \/ called[<<r, o>>] = <<>>

MCBuiltin == {echo}

MCDynamic == {read, write}

MCWriters == {write}

\* A role that may use a tool of a bundle, too.
MCBaselines == [role \in {"builder"} |-> {echo, read}]
=============================================================================
