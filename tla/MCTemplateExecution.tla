------------------------ MODULE MCTemplateExecution ------------------------
(***************************************************************************)
(* Template execution on a handful of templates, each of which puts one    *)
(* way of composing nodes inside another.                                  *)
(***************************************************************************)
EXTENDS TemplateExecution

Command == Template("leaf", <<>>)
Steps(kids) == Template("array", kids)
Branches(kids) == [Template("array", kids) EXCEPT !.parallel = TRUE]
Object(cfg) == Template("object", <<cfg>>)
Failing(cfg, scope) == [cfg EXCEPT !.failure = scope]
Retried(cfg, n) == [cfg EXCEPT !.retry = n]
Broken == [Command EXCEPT !.broken = TRUE]

\* Branches of two steps, one of which aborts, inside a sequence.
FanOut ==
    Steps(<<Command,
            Branches(<<Steps(<<Failing(Command, "root"), Command>>),
                       Failing(Steps(<<Command, Command>>), "branch")>>),
            Command>>)

\* A quorum of two of three judged branches, two at a time.
Review ==
    Steps(<<[Failing(Branches(<<[Command EXCEPT !.accept = TRUE], Command,
                                Object(Retried(Command, 2))>>), "branch")
                 EXCEPT !.quorum = 2, !.concurrency = 2],
            Command>>)

\* A validated group that is tried again after a recovery.
Validated ==
    Steps(<<Command,
            [Retried(Failing(Steps(<<Command, Retried(Command, 2)>>), "branch"), 2)
                EXCEPT !.recover = Command],
            [Command EXCEPT !.when = FALSE],
            Command>>)

\* Repeated steps inside repeated branches, under a scope that aborts.
Repeats ==
    Failing(Steps(<<[Branches(<<Steps(<<Command>>)>>) EXCEPT !.repeat = 2, !.concurrency = 1],
                    [Command EXCEPT !.repeat = 2], Object(Failing(Command, "root"))>>),
            "root")

\* A branch that cannot be built, beside branches that wait for a worker.
Rejecting ==
    [Branches(<<Steps(<<Command, Command>>), Steps(<<Command, Broken>>), Command,
                Command>>) EXCEPT !.concurrency = 2]

\* A last step that aborts, with nothing left to stop.
Guarded == Steps(<<Command, Failing(Command, "root")>>)

\* A repeat of nothing, and a quorum of more branches than there are.
Nothing == Steps(<<Command, [Command EXCEPT !.repeat = 0]>>)
Crowd == Steps(<<[Branches(<<Command>>) EXCEPT !.quorum = 2]>>)

\* A branch whose recovery may fail, and a step that reads what the join shows.
Recovering ==
    Steps(<<Branches(<<[Retried(Command, 2) EXCEPT !.recover = Command]>>), Command>>)

MCPrograms ==
    {Guarded, FanOut, Review, Validated, Repeats, Rejecting, Nothing, Crowd, Recovering}

\* None of them is deeper than four nodes.
Parts(S) ==
    S \cup UNION {ToSet(cfg.kids) : cfg \in S}
      \cup ({cfg.recover : cfg \in S} \ {NoTemplate})
MCNodes == Parts(Parts(Parts(MCPrograms)))
=============================================================================
