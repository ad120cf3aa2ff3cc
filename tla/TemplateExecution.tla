------------------------- MODULE TemplateExecution -------------------------
(***************************************************************************)
(* The execution of a command template, lib/execution.ts.                  *)
(*                                                                         *)
(* executeTemplateConfig calls itself for each part of a template and      *)
(* waits for the commands it starts; the branches of a parallel node run   *)
(* concurrently.  A call that has not returned is a frame, at the path of  *)
(* its node (index 0 is a recovery): it was called, waits for its command  *)
(* or for the calls it made, or has returned an execution its caller has   *)
(* not taken yet.                                                          *)
(*                                                                         *)
(* A text is the set of what it holds: who wrote each piece and whether    *)
(* that command had failed.  Values, labels, delays and the reports of     *)
(* branches and failures are left out; a command killed at its timeout is  *)
(* one that fails.                                                         *)
(***************************************************************************)
EXTENDS Integers, Sequences, FiniteSets, SequencesExt

CONSTANTS
    Programs,   \* the templates executed, one in each behaviour
    Nodes,      \* the nodes they are made of
    Spills,     \* an output may exceed what is kept of it in memory
    Unreadable  \* the complete output cannot be had

VARIABLES
    program,    \* the template that is executed
    frames,     \* the calls of executeTemplateConfig, by path
    final,      \* what executeRegisteredTool ends with
    fatal       \* history: the commands whose failure was to abort everything

executionVars == <<program, frames, final, fatal>>

-----------------------------------------------------------------------------
(* Templates.  A field that is not given is Unset.                         *)

Unset == -1
NoTemplate == [body |-> "none"]

\* body: a command string ("leaf"), an object or an array.
Template(body, kids) ==
    [body |-> body, kids |-> kids, parallel |-> FALSE, when |-> TRUE,
     failure |-> "default", retry |-> Unset, recover |-> NoTemplate,
     repeat |-> Unset, concurrency |-> Unset, quorum |-> Unset,
     accept |-> FALSE, broken |-> FALSE]

\* The nodes with parts in K, as the validators let them pass: normalizeRetry,
\* normalizeConcurrency, normalizeMinSuccessful, resolveCommandTemplateRepeat.
NodeOf(K) ==
    [body : {"leaf", "object", "array"}, kids : Seq(K), parallel : BOOLEAN, when : BOOLEAN,
     failure : {"default", "continue", "branch", "root"},
     retry : {Unset} \cup (Nat \ {0}), recover : K \cup {NoTemplate},
     repeat : {Unset} \cup Nat, concurrency : {Unset} \cup (Nat \ {0}),
     quorum : {Unset} \cup Nat, accept : BOOLEAN, broken : BOOLEAN]

ASSUME NodesAssumption ==
    /\ Programs \subseteq Nodes /\ Nodes \subseteq NodeOf(Nodes)
    /\ \A cfg \in Nodes : cfg.body = "object" => Len(cfg.kids) = 1

\* No scope is "continue", except that a recovery then has another default.
Scopes == <<"default", "continue", "branch", "root">>
Rank(scope) == CHOOSE i \in DOMAIN Scopes : Scopes[i] = scope

\* maxFailureScope.
Widest(S) == CHOOSE s \in S : \A t \in S : Rank(t) <= Rank(s)

Retriable(cfg) ==
    /\ cfg.retry # Unset
    /\ cfg.body = "array" \/ cfg.recover # NoTemplate

\* The steps a repeated node stands for, in a node with its join options.
Repeated(cfg) ==
    [Template("array", [k \in 1..cfg.repeat |-> [cfg EXCEPT !.repeat = Unset]])
        EXCEPT !.parallel = cfg.parallel, !.failure = cfg.failure,
               !.concurrency = cfg.concurrency, !.quorum = cfg.quorum]

Attempted(cfg) == [cfg EXCEPT !.retry = Unset, !.recover = NoTemplate]

\* getRecoverConfig: a template with no scope of its own aborts.
Recovery(cfg) ==
    IF cfg.recover.failure = "default"
    THEN [cfg.recover EXCEPT !.failure = "root"] ELSE cfg.recover

Workers(cfg) ==
    IF cfg.concurrency = Unset \/ cfg.concurrency > Len(cfg.kids)
    THEN Len(cfg.kids) ELSE cfg.concurrency

-----------------------------------------------------------------------------
(* Executions: a result and how far its failure reaches.                   *)

\* out is stdout, full the complete output behind it.
Execution(code, out, full, bytes, truncated, scope) ==
    [code |-> code, out |-> out, full |-> full, bytes |-> bytes,
     truncated |-> truncated, scope |-> scope]

Thrown == Execution(1, {}, {}, FALSE, FALSE, "root")
NoExecution == [code |-> Unset]

Piece(p, state) == [from |-> p, state |-> state, spilled |-> FALSE]
Spilled(T) == {[x EXCEPT !.spilled = TRUE] : x \in T}
Labelled(T) == {[x EXCEPT !.state = "rejected"] : x \in T}

\* What a command may end with: it succeeds or fails, with an output or
\* none, which may be too long to keep, on disk or lost.
CommandResults(p) ==
    UNION {LET code == IF state = "output" THEN 0 ELSE 1
               text == {Piece(p, state)} IN
           {Execution(code, {}, {}, FALSE, FALSE, "default"),
            Execution(code, text, text, TRUE, FALSE, "default")}
           \cup (IF Spills
                 THEN {Execution(code, text, full, TRUE, TRUE, "default") :
                         full \in {Spilled(text), Unreadable}}
                 ELSE {}) : state \in {"output", "failed"}}

\* applyOutputAcceptancePolicy: an output need not begin with the marker.
Judged(cfg, e) ==
    IF ~cfg.accept \/ e.code # 0 THEN {e}
    ELSE LET no == IF e.full = Unreadable THEN Unreadable
                   ELSE {[x EXCEPT !.state = "failed"] : x \in e.full}
             rejected == [e EXCEPT !.code = 65, !.full = no,
                          !.out = {[x EXCEPT !.state = "failed"] : x \in e.out}]
         IN IF e.full \in {{}, Unreadable} THEN {rejected} ELSE {e, rejected}

\* rejectIncompletePipelineOutput.
Incomplete(e) == [e EXCEPT !.code = 74]

\* Mutant: the output of a failed step is kept.
ClearedNot(e) == [e EXCEPT !.code = 0, !.scope = "default"]

\* A failed step of a sequence that goes on.  What stdoutBytes counts and
\* what was spilled to a file stay.
Cleared(e) ==
    [e EXCEPT !.code = 0, !.out = {}, !.scope = "default",
              !.full = IF e.truncated THEN e.full ELSE {}]

\* isUsableBranch.
Usable(e) == e.code = 0 /\ e.bytes /\ ~e.truncated

\* Mutant: the scope the step itself gives is not looked at.
StepScopeOfNode(f, e) ==
    Widest({e.scope, f.cfg.failure,
            IF f.root /\ Len(f.cfg.kids) = 1 THEN "root" ELSE "default"})

\* How far the failure e of the step at hand reaches.
StepScope(f, e) ==
    Widest({e.scope, f.cfg.kids[f.i].failure, f.cfg.failure,
            IF f.root /\ Len(f.cfg.kids) = 1 THEN "root" ELSE "default"})

\* Mutant: only the scopes of the branches themselves abort.
RootFailuresOwn(cfg, es) ==
    {k \in DOMAIN es : es[k].code # 0 /\ cfg.kids[k].failure = "root"}

\* The branches whose failure aborts the whole execution.
RootFailures(cfg, es) ==
    {k \in DOMAIN es :
        /\ es[k].code # 0
        /\ Widest({es[k].scope, cfg.kids[k].failure, cfg.failure}) = "root"}

\* joinParallelStdout: a failed branch is shown as such.
Joined(p, es, texts) ==
    {Piece(p, "header")}
    \cup UNION {IF es[k].code = 0 THEN texts[k] ELSE Labelled(texts[k]) :
                    k \in DOMAIN es}
Full(e) == IF e.full = Unreadable THEN e.out ELSE e.full

\* The end of a parallel node, from what its branches returned.
JoinedExecution(p, cfg, returned) ==
    LET es == [k \in DOMAIN returned |->
                 IF returned[k].truncated /\ returned[k].full = Unreadable
                 THEN Incomplete(returned[k]) ELSE returned[k]]
        failed == {k \in DOMAIN es : es[k].code # 0}
        usable == {k \in DOMAIN es : Usable(es[k])}
        unmet == cfg.quorum # Unset /\ Cardinality(usable) < cfg.quorum
        First(K) == CHOOSE k \in K : \A l \in K : k <= l
        code == IF failed = {} THEN 1 ELSE es[First(failed)].code
        result == Execution(0, Joined(p, es, [k \in DOMAIN es |-> es[k].out]),
                            Joined(p, es, [k \in DOMAIN es |-> Full(es[k])]),
                            \E k \in DOMAIN es : es[k].bytes,
                            \E k \in DOMAIN es : es[k].truncated, "default")
    IN IF RootFailures(cfg, es) # {}
       THEN [es[First(RootFailures(cfg, es))] EXCEPT !.scope = "root"]
       ELSE IF unmet /\ cfg.failure = "root"
       THEN [result EXCEPT !.code = code, !.scope = "root"]
       ELSE IF /\ cfg.failure = "branch"
               /\ IF cfg.quorum = Unset THEN failed # {} \/ usable = {} ELSE unmet
       THEN [result EXCEPT !.code = code, !.scope = "branch"]
       ELSE result

-----------------------------------------------------------------------------
(* Frames.                                                                 *)

Called(cfg, stdin, root) ==
    [cfg |-> cfg, stdin |-> stdin, root |-> root, at |-> "called", i |-> 0,
     result |-> NoExecution, got |-> <<>>]

With(fs, p, cfg, stdin, root) ==
    [q \in DOMAIN fs \cup {p} |-> IF q = p THEN Called(cfg, stdin, root) ELSE fs[q]]
Dropping(fs, P) == [q \in DOMAIN fs \ P |-> fs[q]]
Returning(fs, p, e) == [fs EXCEPT ![p].at = "returned", ![p].result = e]

Above(p) == {q \in DOMAIN frames : IsStrictPrefix(q, p)}
Waits(p, at) == p \in DOMAIN frames /\ frames[p].at = at

\* The call p made of its part k has returned.
Back(p, k) == Waits(Append(p, k), "returned")
Returned(p, k) == frames[Append(p, k)].result
Taken(p, k) == Dropping(frames, {Append(p, k)})

\* A call rejects: so do all that wait for it, one after the other.  The
\* workers of a parallel node do not wait for each other: they go on.
Throw(p) ==
    /\ frames' = [q \in {r \in DOMAIN frames \ {p} :
                           r \in Above(p) => frames[r].at \in {"branches", "rejected"}}
                  |-> IF q \in Above(p) THEN [frames[q] EXCEPT !.at = "rejected"]
                      ELSE frames[q]]
    /\ final' = IF final = NoExecution THEN Thrown ELSE final
    /\ UNCHANGED <<program, fatal>>

-----------------------------------------------------------------------------
(* A call begins.                                                          *)

Go(fs) == frames' = fs /\ UNCHANGED <<program, final, fatal>>

Begins(p) == Waits(p, "called")

\* A false guard: the input is handed on.
Skip(p) ==
    /\ Begins(p) /\ ~frames[p].cfg.when
    /\ LET in == frames[p].stdin IN
       Go(Returning(frames, p, Execution(0, in, in, in # {}, FALSE, "default")))

Runs(p) == Begins(p) /\ frames[p].cfg.when

Repeat(p) ==
    /\ Runs(p) /\ frames[p].cfg.repeat # Unset
    /\ Go([frames EXCEPT ![p].cfg = Repeated(@)])

RunsOnce(p) == Runs(p) /\ frames[p].cfg.repeat = Unset

Attempt(p) ==
    /\ RunsOnce(p) /\ Retriable(frames[p].cfg)
    /\ LET f == frames[p] IN
       Go(With([frames EXCEPT ![p].at = "attempt", ![p].i = 1],
               Append(p, 1), Attempted(f.cfg), f.stdin, f.root))

RunsPlain(p) == RunsOnce(p) /\ ~Retriable(frames[p].cfg)

\* An object around a template is passed through.
Unwrap(p) ==
    /\ RunsPlain(p) /\ frames[p].cfg.body = "object"
    /\ Go(With([frames EXCEPT ![p].at = "object"],
               Append(p, 1), frames[p].cfg.kids[1], frames[p].stdin, FALSE))

StartCommand(p) ==
    /\ RunsPlain(p) /\ frames[p].cfg.body = "leaf" /\ ~frames[p].cfg.broken
    /\ Go([frames EXCEPT ![p].at = "command", ![p].i = 1])

StartBranches(p) ==
    LET f == frames[p]
        branches == {Append(p, k) : k \in 1..Workers(f.cfg)}
    IN
    /\ RunsPlain(p) /\ f.cfg.body = "array" /\ f.cfg.parallel
    /\ f.cfg.kids # <<>> /\ f.cfg.quorum <= Len(f.cfg.kids)
    /\ Go([q \in DOMAIN frames \cup branches |->
              IF q \in branches THEN Called(f.cfg.kids[Last(q)], f.stdin, FALSE)
              ELSE IF q = p
              THEN [f EXCEPT !.at = "branches", !.i = Workers(f.cfg),
                             !.got = [k \in DOMAIN f.cfg.kids |-> NoExecution]]
              ELSE frames[q]])

StartSteps(p) ==
    LET f == frames[p] IN
    /\ RunsPlain(p) /\ f.cfg.body = "array" /\ ~f.cfg.parallel /\ f.cfg.kids # <<>>
    /\ Go(With([frames EXCEPT ![p].at = "steps", ![p].i = 1],
               Append(p, 1), f.cfg.kids[1], f.stdin, FALSE))

\* A command that cannot be built, a node with no step, a quorum no join meets.
CannotRun(p) ==
    LET cfg == frames[p].cfg IN
    /\ RunsPlain(p)
    /\ \/ cfg.body = "leaf" /\ cfg.broken
       \/ cfg.body = "array" /\ cfg.kids = <<>>
       \/ cfg.body = "array" /\ cfg.parallel /\ cfg.quorum > Len(cfg.kids)
    /\ Throw(p)

-----------------------------------------------------------------------------
(* A command ends, or a call takes what the call it made returned.         *)

\* The outermost object around p that only passes it through.
Outer(p) ==
    CHOOSE q \in Above(p) \cup {p} :
        /\ \A r \in Above(p) : Len(r) >= Len(q) => frames[r].at = "object"
        /\ q # <<>> => frames[Front(q)].at # "object"

\* The failure of command p is to abort everything: the scope of the step
\* or of the node it is a part of says so, and nothing above tries again.
Aborts(p) ==
    LET q == Outer(p)
        node == frames[Front(q)] IN
    /\ q # <<>>
    /\ \A r \in Above(p) : frames[r].at \notin {"attempt", "recover"}
    /\ \/ frames[q].cfg.failure = "root"
       \/ node.cfg.failure = "root"
       \/ node.root /\ node.at = "steps" /\ Len(node.cfg.kids) = 1

\* execCommandTemplate tries a command again; the policy judges the last try.
CommandEnds(p) ==
    /\ Waits(p, "command")
    /\ \E raw \in CommandResults(p) :
         LET f == frames[p] IN
         IF raw.code # 0 /\ f.i < f.cfg.retry
         THEN Go([frames EXCEPT ![p].i = @ + 1])
         ELSE \E e \in Judged(f.cfg, raw) :
                /\ frames' = Returning(frames, p, e)
                /\ fatal' = IF e.code # 0 /\ Aborts(p) THEN fatal \cup {p} ELSE fatal
                /\ UNCHANGED <<program, final>>

Unwrapped(p) ==
    /\ Waits(p, "object") /\ Back(p, 1)
    /\ Go(Returning(Taken(p, 1), p, Returned(p, 1)))

\* A failed attempt is followed by the recovery, which gets its stdout, and
\* by the next attempt, which gets the input of the first.
AttemptReturns(p) ==
    /\ Waits(p, "attempt") /\ Back(p, 1)
    /\ LET f == frames[p]
           e == Returned(p, 1)
           on == Taken(p, 1) IN
       Go(IF e.code = 0 \/ f.i = f.cfg.retry THEN Returning(on, p, e)
          ELSE IF f.cfg.recover = NoTemplate
          THEN With([on EXCEPT ![p].i = @ + 1],
                    Append(p, 1), Attempted(f.cfg), f.stdin, f.root)
          ELSE With([on EXCEPT ![p].at = "recover"],
                    Append(p, 0), Recovery(f.cfg), e.out, FALSE))

\* A recovery that fails ends the attempts.
RecoveryReturns(p) ==
    /\ Waits(p, "recover") /\ Back(p, 0)
    /\ LET f == frames[p]
           e == Returned(p, 0)
           on == Taken(p, 0) IN
       Go(IF e.code = 0
          THEN With([on EXCEPT ![p].at = "attempt", ![p].i = @ + 1],
                    Append(p, 1), Attempted(f.cfg), f.stdin, f.root)
          ELSE Returning(on, p,
                         [e EXCEPT !.scope = Widest({e.scope, f.cfg.failure})]))

\* Mutant: a worker whose branch failed takes no other.
NextBranchUnlessFailed(fs, p, e) ==
    IF fs[p].i >= Len(fs[p].cfg.kids) \/ e.code # 0 THEN fs
    ELSE With([fs EXCEPT ![p].i = @ + 1], Append(p, fs[p].i + 1),
              fs[p].cfg.kids[fs[p].i + 1], fs[p].stdin, FALSE)

\* mapConcurrent: the worker takes the next branch there is.
NextBranch(fs, p, e) ==
    IF fs[p].i >= Len(fs[p].cfg.kids) THEN fs
    ELSE With([fs EXCEPT ![p].i = @ + 1], Append(p, fs[p].i + 1),
              fs[p].cfg.kids[fs[p].i + 1], fs[p].stdin, FALSE)

BranchReturns(p) ==
    /\ Waits(p, "branches") \/ Waits(p, "rejected")
    /\ \E k \in DOMAIN frames[p].cfg.kids :
         /\ Back(p, k)
         /\ LET e == Returned(p, k) IN
            Go(NextBranch([Taken(p, k) EXCEPT ![p].got[k] = e], p, e))

Join(p) ==
    /\ Waits(p, "branches")
    /\ \A k \in DOMAIN frames[p].got : frames[p].got[k] # NoExecution
    /\ Go(Returning(frames, p, JoinedExecution(p, frames[p].cfg, frames[p].got)))

StepReturns(p) ==
    /\ Waits(p, "steps") /\ Back(p, frames[p].i)
    /\ LET f == frames[p]
           last == f.i = Len(f.cfg.kids)
           e == Returned(p, f.i)
           on == Taken(p, f.i)
           scope == StepScope(f, e)
           GoOn(result, stdin) ==
               IF last THEN Returning(on, p, result)
               ELSE With([on EXCEPT ![p].i = @ + 1],
                         Append(p, f.i + 1), f.cfg.kids[f.i + 1], stdin, FALSE)
       IN Go(IF ~last /\ e.full = Unreadable
             THEN Returning(on, p, [Incomplete(e) EXCEPT !.scope = "root"])
             ELSE IF e.code = 0 THEN GoOn([e EXCEPT !.scope = "default"], e.full)
             ELSE IF scope \in {"root", "branch"}
             THEN Returning(on, p, [e EXCEPT !.scope = scope])
             ELSE GoOn(Cleared(e), {}))

\* executeRegisteredTool: a code other than 0 is thrown.
Finish ==
    /\ Waits(<<>>, "returned")
    /\ final' = frames[<<>>].result
    /\ frames' = Dropping(frames, {<<>>})
    /\ UNCHANGED <<program, fatal>>

ExecutionInit ==
    /\ program \in Programs
    /\ frames = With(<<>>, <<>>, program, {}, TRUE)
    /\ final = NoExecution /\ fatal = {}

ExecutionNext ==
    \/ \E p \in DOMAIN frames :
         \/ Skip(p) \/ Repeat(p) \/ Attempt(p) \/ Unwrap(p) \/ StartCommand(p)
         \/ StartBranches(p) \/ StartSteps(p) \/ CannotRun(p)
         \/ CommandEnds(p) \/ Unwrapped(p) \/ AttemptReturns(p)
         \/ RecoveryReturns(p) \/ BranchReturns(p) \/ Join(p) \/ StepReturns(p)
    \/ Finish

\* Every command ends and every promise that can settle does.
ExecutionSpec ==
    ExecutionInit /\ [][ExecutionNext]_executionVars /\ WF_executionVars(ExecutionNext)

-----------------------------------------------------------------------------
(* Properties.                                                             *)

\* A command whose failure is to abort everything makes the tool fail,
\* however deep in the template it is (executeTemplateConfig, the scopes of
\* steps and branches; docs/command-templates.md, Failure Propagation).
RootFailureIsFatal == final # NoExecution /\ fatal # {} => final.code # 0

Meet(p, q) == LongestCommonPrefix({p, q})

\* After such a failure only the branches that run beside it start commands.
FatalStops ==
    [][\A p \in DOMAIN frames', f \in fatal :
          frames'[p].at = "command" /\ ~Waits(p, "command") =>
              LET m == Meet(p, f) IN
              m \in DOMAIN frames => frames[m].at \in {"branches", "rejected"}]_executionVars

InRecovery(p) == 0 \in ToSet(p)

\* What a command reads is output of commands that succeeded, none of them in a
\* recovery, except for what a join shows as rejected and for what spilled from
\* a failed last step of an inner sequence (executeRetriableTemplateConfig, the
\* pipeline of executeTemplateConfig).
Clean(T) ==
    \A x \in T :
        x.state # "rejected" => IF x.state = "failed" THEN x.spilled ELSE ~InRecovery(x.from)

StdinIsClean ==
    \A p \in DOMAIN frames :
        frames[p].at = "command" /\ ~InRecovery(p) => Clean(frames[p].stdin)

Ended == final # NoExecution /\ \A p \in DOMAIN frames : frames[p].at = "rejected"

\* Every execution ends, and nothing it started is left behind.
Ends == DOMAIN frames # {} ~> Ended
=============================================================================
