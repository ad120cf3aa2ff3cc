----------------------- MODULE TemplateExecutionProofs -----------------------
(***************************************************************************)
(* TLAPS proofs about TemplateExecution: for templates of any shape and    *)
(* depth and any outcome of their commands, what a command reads is clean. *)
(***************************************************************************)
EXTENDS TemplateExecution, SequenceTheorems, WellFoundedInduction, TLAPS

-----------------------------------------------------------------------------
(* Types.                                                                  *)

ScopeNames == {"default", "continue", "branch", "root"}
States == {"output", "failed", "rejected", "header"}
Pieces == [from : Seq(Nat), state : States, spilled : BOOLEAN]
Texts == SUBSET Pieces
Results == [code : Nat, out : Texts, full : Texts \cup {Unreadable}, bytes : BOOLEAN,
            truncated : BOOLEAN, scope : ScopeNames]

\* The nodes of a template and what retries and repeats make of them.  Nothing
\* that was repeated is repeated again.
Wraps(cfg) == cfg.body = "object" => Len(cfg.kids) = 1
Derived == {cfg \in NodeOf(Nodes) : Wraps(cfg)}
Config ==
    {cfg \in NodeOf(Derived) : Wraps(cfg) /\ (cfg.repeat # Unset => cfg \in Derived)}

Places == {"called", "attempt", "recover", "object", "command", "branches", "steps",
           "returned", "rejected"}

Frames == [cfg : Config, stdin : Texts, root : BOOLEAN, at : Places, i : Nat,
           result : Results \cup {NoExecution}, got : Seq(Results \cup {NoExecution})]

-----------------------------------------------------------------------------
(* Templates.                                                              *)

LEMMA NodesAreDerived == Nodes \subseteq Derived
BY NodesAssumption DEF Derived, Wraps

LEMMA DerivedAreConfig == Derived \subseteq Config
<1> SUFFICES ASSUME NEW cfg \in Derived PROVE cfg \in Config
  OBVIOUS
<1>1. cfg \in NodeOf(Nodes) /\ Wraps(cfg)
  BY DEF Derived
<1>2. cfg.kids \in Seq(Derived)
  BY <1>1, NodesAreDerived, SeqMonotonic DEF NodeOf
<1>3. cfg.recover \in Derived \cup {NoTemplate}
  BY <1>1, NodesAreDerived DEF NodeOf
<1>4. cfg \in NodeOf(Derived)
  BY <1>1, <1>2, <1>3 DEF NodeOf
<1> QED
  BY <1>1, <1>4 DEF Config

LEMMA KidsAreConfig ==
    ASSUME NEW cfg \in Config
    PROVE  /\ Len(cfg.kids) \in Nat /\ DOMAIN cfg.kids = 1..Len(cfg.kids)
           /\ \A k \in DOMAIN cfg.kids : cfg.kids[k] \in Config
           /\ cfg.recover # NoTemplate => cfg.recover \in Config
           /\ cfg.failure \in ScopeNames
<1>1. cfg.kids \in Seq(Derived) /\ cfg.recover \in Derived \cup {NoTemplate}
  BY DEF Config, NodeOf
<1>2. /\ Len(cfg.kids) \in Nat /\ DOMAIN cfg.kids = 1..Len(cfg.kids)
      /\ \A k \in DOMAIN cfg.kids : cfg.kids[k] \in Derived
  BY <1>1, LenProperties, ElementOfSeq
<1>3. cfg.failure \in ScopeNames
  BY DEF Config, NodeOf, ScopeNames
<1> QED
  BY <1>1, <1>2, <1>3, DerivedAreConfig

LEMMA AttemptedIsConfig ==
    ASSUME NEW cfg \in Config
    PROVE  Attempted(cfg) \in Config /\ Attempted(cfg).failure = cfg.failure
<1> DEFINE a == Attempted(cfg)
<1>1. \A K : cfg \in NodeOf(K) => a \in NodeOf(K)
  BY DEF Attempted, NodeOf
<1>2. /\ a.body = cfg.body /\ a.kids = cfg.kids /\ a.repeat = cfg.repeat
      /\ a.failure = cfg.failure
  BY DEF Attempted, Config, NodeOf
<1> QED
  BY <1>1, <1>2 DEF Config, Derived, Wraps

LEMMA RecoveryIsConfig ==
    ASSUME NEW cfg \in Config, cfg.recover # NoTemplate
    PROVE  Recovery(cfg) \in Config
<1> DEFINE r == [cfg.recover EXCEPT !.failure = "root"]
<1>1. cfg.recover \in Config
  BY KidsAreConfig
<1>2. \A K : cfg.recover \in NodeOf(K) => r \in NodeOf(K)
  BY DEF NodeOf
<1>3. r.body = cfg.recover.body /\ r.kids = cfg.recover.kids /\ r.repeat = cfg.recover.repeat
  BY <1>1 DEF Config, NodeOf
<1>4. r \in Config
  BY <1>1, <1>2, <1>3 DEF Config, Derived, Wraps
<1> QED
  BY <1>1, <1>4 DEF Recovery

LEMMA RepeatedIsConfig ==
    ASSUME NEW cfg \in Config, cfg.repeat # Unset
    PROVE  Repeated(cfg) \in Config /\ Repeated(cfg).failure = cfg.failure
<1> DEFINE once == [cfg EXCEPT !.repeat = Unset]
           kids == [k \in 1..cfg.repeat |-> once]
           t == Template("array", kids)
           r == Repeated(cfg)
<1>1. cfg \in Derived /\ cfg.repeat \in Nat
  BY DEF Config, NodeOf
<1>2. once \in Derived
  <2>1. once \in NodeOf(Nodes) /\ once.body = cfg.body /\ once.kids = cfg.kids
    BY <1>1 DEF Derived, NodeOf
  <2> QED
    BY <1>1, <2>1 DEF Derived, Wraps
<1>3. kids \in Seq(Derived)
  BY <1>1, <1>2, IsASeq
<1>4. /\ cfg.parallel \in BOOLEAN /\ cfg.failure \in ScopeNames
      /\ cfg.concurrency \in {Unset} \cup (Nat \ {0}) /\ cfg.quorum \in {Unset} \cup Nat
  BY DEF Config, NodeOf, ScopeNames
<1> HIDE DEF kids, once
<1>5. t \in NodeOf(Derived) /\ t.body = "array" /\ t.repeat = Unset
  BY <1>3 DEF Template, NodeOf
<1>6. r = [t EXCEPT !.parallel = cfg.parallel, !.failure = cfg.failure,
                    !.concurrency = cfg.concurrency, !.quorum = cfg.quorum]
  BY DEF Repeated, kids, once
<1> HIDE DEF t, r
<1>7. /\ r \in NodeOf(Derived) /\ r.body = "array" /\ r.repeat = Unset
      /\ r.failure = cfg.failure
  BY <1>4, <1>5, <1>6 DEF NodeOf, ScopeNames
<1> QED
  BY <1>7 DEF Config, Wraps, r

-----------------------------------------------------------------------------
(* Scopes.                                                                 *)

LEMMA Ranks ==
    /\ Rank("default") = 1 /\ Rank("continue") = 2 /\ Rank("branch") = 3 /\ Rank("root") = 4
<1>1. /\ DOMAIN Scopes = {1, 2, 3, 4}
      /\ Scopes[1] = "default" /\ Scopes[2] = "continue"
      /\ Scopes[3] = "branch" /\ Scopes[4] = "root"
  BY DEF Scopes
<1> QED
  BY <1>1 DEF Rank

LEMMA WidestScope ==
    ASSUME NEW S \in SUBSET ScopeNames, S # {}
    PROVE  /\ Widest(S) \in S
           /\ "root" \in S => Widest(S) = "root"
           /\ Widest(S) \notin {"root", "branch"} => S \subseteq {"default", "continue"}
<1>1. \E s \in S : \A t \in S : Rank(t) <= Rank(s)
  <2>1. CASE "root" \in S
    BY <2>1, Ranks DEF ScopeNames
  <2>2. CASE "root" \notin S /\ "branch" \in S
    BY <2>2, Ranks DEF ScopeNames
  <2>3. CASE S \subseteq {"default", "continue"} /\ "continue" \in S
    BY <2>3, Ranks
  <2>4. CASE S = {"default"}
    BY <2>4, Ranks
  <2> QED
    BY <2>1, <2>2, <2>3, <2>4 DEF ScopeNames
<1> DEFINE w == Widest(S)
<1>2. w \in S /\ \A t \in S : Rank(t) <= Rank(w)
  BY <1>1 DEF Widest
<1> HIDE DEF w
<1>3. ASSUME w \notin {"root", "branch"} PROVE S \subseteq {"default", "continue"}
  <2>1. w = "default" \/ w = "continue"
    BY <1>2, <1>3 DEF ScopeNames
  <2>2. Rank(w) \in {1, 2}
    BY <2>1, Ranks
  <2>3. "branch" \notin S /\ "root" \notin S
    BY <1>2, <2>2, Ranks
  <2> QED
    BY <2>3 DEF ScopeNames
<1>4. ASSUME "root" \in S PROVE w = "root"
  <2>1. Rank("root") <= Rank(w)
    BY <1>2, <1>4
  <2>2. w \in {"default", "continue", "branch", "root"}
    BY <1>2 DEF ScopeNames
  <2> QED
    BY <2>1, <2>2, Ranks
<1> QED
  BY <1>2, <1>3, <1>4 DEF w

-----------------------------------------------------------------------------
(* Paths.                                                                  *)

LEMMA RecoveryPaths ==
    ASSUME NEW p \in Seq(Nat), NEW k \in Nat
    PROVE  /\ Append(p, k) \in Seq(Nat) /\ Append(p, k) # p
           /\ InRecovery(Append(p, k)) <=> InRecovery(p) \/ k = 0
           /\ Last(Append(p, k)) = k
<1> DEFINE q == Append(p, k)
<1>1. /\ q \in Seq(Nat) /\ Len(q) = Len(p) + 1 /\ q[Len(p) + 1] = k
      /\ \A n \in 1..Len(p) : q[n] = p[n]
  OBVIOUS
<1>2. Len(p) \in Nat /\ DOMAIN p = 1..Len(p) /\ DOMAIN q = 1..(Len(p) + 1)
  BY <1>1, LenProperties
<1> HIDE DEF q
<1>3. InRecovery(q) <=> InRecovery(p) \/ k = 0
  <2>1. ASSUME NEW n \in 1..(Len(p) + 1) PROVE n \in 1..Len(p) \/ n = Len(p) + 1
    BY <1>2
  <2>2. \A n \in 1..Len(p) : n \in 1..(Len(p) + 1)
    BY <1>2
  <2>3. Len(p) + 1 \in 1..(Len(p) + 1)
    BY <1>2
  <2> QED
    BY <1>1, <1>2, <2>1, <2>2, <2>3 DEF InRecovery, ToSet
<1>4. q # p
  BY <1>1, <1>2
<1> QED
  BY <1>1, <1>3, <1>4 DEF q, Last

-----------------------------------------------------------------------------
(* Results.                                                                *)

\* A failure that stops nothing has nothing to show but what spilled.
PassedOn(e) ==
    e.code # 0 /\ e.scope \in {"default", "continue"} /\ e.truncated /\ e.full # Unreadable =>
        \A x \in e.full : x.state = "failed" /\ x.spilled

\* What the call at p may return: outside recoveries, what succeeded is clean.
ResultOK(p, e) ==
    /\ e \in Results /\ PassedOn(e)
    /\ e.code = 0 /\ ~InRecovery(p) =>
          Clean(e.out) /\ (e.full # Unreadable => Clean(e.full))

LEMMA PiecesChange ==
    /\ \A q \in Seq(Nat), state \in States :
          LET x == Piece(q, state) IN
          x \in Pieces /\ x.from = q /\ x.state = state /\ x.spilled = FALSE
    /\ \A x \in Pieces :
          LET y == [x EXCEPT !.spilled = TRUE] IN
          y \in Pieces /\ y.from = x.from /\ y.state = x.state /\ y.spilled
    /\ \A x \in Pieces, state \in States :
          LET y == [x EXCEPT !.state = state] IN
          y \in Pieces /\ y.from = x.from /\ y.state = state /\ y.spilled = x.spilled
<1>1. ASSUME NEW q \in Seq(Nat), NEW state \in States
      PROVE  LET x == Piece(q, state) IN
             x \in Pieces /\ x.from = q /\ x.state = state /\ x.spilled = FALSE
  BY DEF Piece, Pieces
<1>2. ASSUME NEW x \in Pieces
      PROVE  LET y == [x EXCEPT !.spilled = TRUE] IN
             y \in Pieces /\ y.from = x.from /\ y.state = x.state /\ y.spilled
  BY DEF Pieces
<1>3. ASSUME NEW x \in Pieces, NEW state \in States
      PROVE  LET y == [x EXCEPT !.state = state] IN
             y \in Pieces /\ y.from = x.from /\ y.state = state /\ y.spilled = x.spilled
  BY DEF Pieces
<1> QED
  BY <1>1, <1>2, <1>3

LEMMA NoExecutionIsNone ==
    /\ NoExecution \notin Results
    /\ \A e \in Results : e.code \in Nat
BY DEF NoExecution, Results, Unset

LEMMA CommandResultsOK ==
    ASSUME NEW p \in Seq(Nat), NEW raw \in CommandResults(p)
    PROVE  /\ ResultOK(p, raw) /\ raw.scope = "default"
           /\ raw.code # 0 => \A x \in raw.out : x.state = "failed"
           /\ raw.truncated /\ raw.full # Unreadable => \A x \in raw.full : x.spilled
<1>1. PICK state \in {"output", "failed"} :
         LET code == IF state = "output" THEN 0 ELSE 1
             text == {Piece(p, state)} IN
         raw \in {Execution(code, {}, {}, FALSE, FALSE, "default"),
                  Execution(code, text, text, TRUE, FALSE, "default")}
                 \cup {Execution(code, text, full, TRUE, TRUE, "default") :
                         full \in {Spilled(text), Unreadable}}
  BY DEF CommandResults
<1> DEFINE code == IF state = "output" THEN 0 ELSE 1
           text == {Piece(p, state)}
           over == Spilled(text)
<1>2. text \in Texts /\ \A x \in text : x.from = p /\ x.state = state
  <2>1. state \in States
    BY DEF States
  <2>2. Piece(p, state) \in Pieces /\ Piece(p, state).from = p /\ Piece(p, state).state = state
    BY <2>1, PiecesChange, Zenon
  <2> QED
    BY <2>2 DEF Texts
<1>3. over \in Texts /\ \A x \in over : x.from = p /\ x.state = state /\ x.spilled
  <2>1. over = {[x EXCEPT !.spilled = TRUE] : x \in text}
    BY DEF Spilled
  <2> HIDE DEF text, over
  <2>2. ASSUME NEW y \in over PROVE y \in Pieces /\ y.from = p /\ y.state = state /\ y.spilled
    <3>1. PICK x \in text : y = [x EXCEPT !.spilled = TRUE]
      BY <2>1
    <3>2. x \in Pieces /\ x.from = p /\ x.state = state
      BY <1>2 DEF Texts
    <3> QED
      BY <3>1, <3>2, PiecesChange, Zenon
  <2> QED
    BY <2>2 DEF Texts
<1>4. PICK full \in {{}, text, over, Unreadable}, out \in {{}, text}, bytes \in BOOLEAN,
           truncated \in BOOLEAN :
         /\ raw = Execution(code, out, full, bytes, truncated, "default")
         /\ truncated => full \in {over, Unreadable}
         /\ ~truncated => full \in {{}, text}
  BY <1>1
<1>5. /\ raw.code = code /\ raw.out = out /\ raw.full = full /\ raw.truncated = truncated
      /\ raw.scope = "default" /\ code \in Nat
      /\ raw = [code |-> code, out |-> out, full |-> full, bytes |-> bytes,
                truncated |-> truncated, scope |-> "default"]
  BY <1>4 DEF Execution
<1>6. code # 0 => state = "failed"
  OBVIOUS
<1>7. code = 0 => state = "output"
  OBVIOUS
<1> HIDE DEF text, over, code
<1>8. {} \in Texts
  BY DEF Texts
<1>9. raw \in Results
  <2>1. out \in Texts /\ full \in Texts \cup {Unreadable}
    BY <1>2, <1>3, <1>4, <1>8
  <2>2. "default" \in ScopeNames
    BY DEF ScopeNames
  <2> QED
    BY <1>5, <2>1, <2>2 DEF Results
<1>10. PassedOn(raw)
  BY <1>3, <1>4, <1>5, <1>6 DEF PassedOn
<1>11. raw.code = 0 /\ ~InRecovery(p) =>
          Clean(raw.out) /\ (raw.full # Unreadable => Clean(raw.full))
  BY <1>2, <1>3, <1>4, <1>5, <1>7 DEF Clean
<1>12. raw.truncated /\ raw.full # Unreadable => \A x \in raw.full : x.spilled
  BY <1>3, <1>4, <1>5
<1> QED
  BY <1>2, <1>4, <1>5, <1>6, <1>9, <1>10, <1>11, <1>12 DEF ResultOK

LEMMA JudgedOK ==
    ASSUME NEW p, NEW cfg, NEW raw, ResultOK(p, raw), raw.scope = "default",
           NEW e \in Judged(cfg, raw),
           raw.code # 0 => \A x \in raw.out : x.state = "failed",
           raw.truncated /\ raw.full # Unreadable => \A x \in raw.full : x.spilled
    PROVE  ResultOK(p, e)
<1> DEFINE Failed(T) == {[x EXCEPT !.state = "failed"] : x \in T}
           no == IF raw.full = Unreadable THEN Unreadable ELSE Failed(raw.full)
           rejected == [raw EXCEPT !.code = 65, !.full = no, !.out = Failed(raw.out)]
<1>1. raw \in Results
  BY DEF ResultOK
<1>2. \A T \in Texts : Failed(T) \in Texts /\ \A y \in Failed(T) : y.state = "failed"
  <2> SUFFICES ASSUME NEW T \in Texts, NEW y \in Failed(T)
               PROVE  y \in Pieces /\ y.state = "failed"
    BY DEF Texts
  <2>1. PICK x \in T : y = [x EXCEPT !.state = "failed"]
    OBVIOUS
  <2>2. x \in Pieces /\ "failed" \in States
    BY DEF Texts, States
  <2> HIDE DEF Failed
  <2> QED
    BY <2>1, <2>2 DEF Pieces
<1>3. e = raw \/ e = rejected
  BY DEF Judged
<1>4. raw.out \in Texts /\ raw.full \in Texts \cup {Unreadable}
  BY <1>1 DEF Results
<1>5. no \in Texts \cup {Unreadable}
  BY <1>2, <1>4
<1>6. raw.truncated /\ no # Unreadable => \A y \in no : y.state = "failed" /\ y.spilled
  <2> SUFFICES ASSUME raw.truncated, no # Unreadable, NEW y \in no
               PROVE  y.state = "failed" /\ y.spilled
    OBVIOUS
  <2>1. raw.full # Unreadable /\ raw.full \in Texts
    BY <1>4
  <2>2. PICK x \in raw.full : y = [x EXCEPT !.state = "failed"]
    BY <2>1
  <2>3. x \in Pieces /\ x.spilled
    BY <2>1 DEF Texts
  <2> QED
    BY <2>2, <2>3, PiecesChange
<1> HIDE DEF no, Failed
<1>7. /\ rejected.code = 65 /\ rejected.full = no /\ rejected.truncated = raw.truncated
      /\ rejected \in Results
  BY <1>1, <1>2, <1>4, <1>5 DEF Results
<1>8. ResultOK(p, rejected)
  <2> HIDE DEF rejected
  <2> QED
    BY <1>6, <1>7 DEF ResultOK, PassedOn
<1> QED
  BY <1>3, <1>8

LEMMA ClearedOK ==
    ASSUME NEW p, NEW e \in Results, PassedOn(e), e.code # 0,
           e.scope \in {"default", "continue"}
    PROVE  ResultOK(p, Cleared(e)) /\ Cleared(e).code = 0
<1> DEFINE full == IF e.truncated THEN e.full ELSE {}
           c == Cleared(e)
<1>1. full \in Texts \cup {Unreadable} /\ e.truncated \in BOOLEAN
  BY DEF Results, Texts
<1>2. full # Unreadable => Clean(full)
  BY <1>1 DEF PassedOn, Clean
<1> HIDE DEF full
<1>3. c = [e EXCEPT !.code = 0, !.out = {}, !.scope = "default", !.full = full]
  BY DEF Cleared, full
<1>4. c \in Results /\ c.code = 0 /\ c.out = {} /\ c.full = full
  <2>1. c = [code |-> 0, out |-> {}, full |-> full, bytes |-> e.bytes,
             truncated |-> e.truncated, scope |-> "default"]
    BY <1>3 DEF Results
  <2>2. {} \in Texts /\ "default" \in ScopeNames /\ e.bytes \in BOOLEAN
    BY DEF Texts, ScopeNames, Results
  <2> QED
    BY <1>1, <2>1, <2>2 DEF Results
<1> HIDE DEF c
<1> QED
  BY <1>2, <1>4 DEF ResultOK, PassedOn, Clean, c

\* A result that reaches as far as a scope the caller adds.
LEMMA WidenedOK ==
    ASSUME NEW p, NEW e, ResultOK(p, e), NEW scope \in ScopeNames,
           scope \in {"default", "continue"} => e.scope \in {"default", "continue"}
    PROVE  ResultOK(p, [e EXCEPT !.scope = scope])
<1> DEFINE w == [e EXCEPT !.scope = scope]
<1>1. /\ w \in Results /\ w.code = e.code /\ w.out = e.out /\ w.full = e.full
      /\ w.truncated = e.truncated /\ w.scope = scope
  BY DEF ResultOK, Results
<1> HIDE DEF w
<1> QED
  BY <1>1 DEF ResultOK, PassedOn, w

LEMMA DefaultedOK ==
    ASSUME NEW p, NEW e, ResultOK(p, e), e.code = 0
    PROVE  /\ ResultOK(p, [e EXCEPT !.scope = "default"])
           /\ [e EXCEPT !.scope = "default"].code = 0
<1> DEFINE w == [e EXCEPT !.scope = "default"]
<1>1. /\ w \in Results /\ w.code = e.code /\ w.out = e.out /\ w.full = e.full
  BY DEF ResultOK, Results, ScopeNames
<1> HIDE DEF w
<1> QED
  BY <1>1 DEF ResultOK, PassedOn, w

LEMMA IncompleteOK ==
    ASSUME NEW p, NEW e, ResultOK(p, e)
    PROVE  /\ Incomplete(e) \in Results /\ Incomplete(e).code = 74
           /\ Incomplete(e).out = e.out /\ Incomplete(e).full = e.full
           /\ Incomplete(e).scope = e.scope
BY DEF Incomplete, ResultOK, Results

LEMMA IncompleteStops ==
    ASSUME NEW p, NEW e, ResultOK(p, e)
    PROVE  ResultOK(p, [Incomplete(e) EXCEPT !.scope = "root"])
<1> DEFINE w == [Incomplete(e) EXCEPT !.scope = "root"]
<1>1. w \in Results /\ w.code = 74 /\ w.scope = "root"
  BY IncompleteOK DEF Results, ScopeNames
<1> HIDE DEF w
<1> QED
  BY <1>1 DEF ResultOK, PassedOn, w

-----------------------------------------------------------------------------
(* Joins.                                                                  *)

LEMMA LeastOfSome ==
    ASSUME NEW K, K \subseteq Nat, K # {}
    PROVE  \E k \in K : \A l \in K : k <= l
<1>1. PICK x \in K : \A y \in K : ~ (<<y, x>> \in OpToRel(<, Nat))
  BY NatLessThanWellFounded, WFMin
<1>2. ASSUME NEW y \in K, y < x PROVE FALSE
  <2>1. <<y, x>> \in Nat \X Nat
    OBVIOUS
  <2>2. <<y, x>> \in OpToRel(<, Nat)
    BY <1>2, <2>1 DEF OpToRel
  <2> QED
    BY <1>1, <2>2
<1>3. \A y \in K : x <= y
  BY <1>2
<1> QED
  BY <1>3

LEMMA FirstOfSome ==
    ASSUME NEW K, K \subseteq Nat, K # {}
    PROVE  (CHOOSE k \in K : \A l \in K : k <= l) \in K
BY LeastOfSome

LEMMA JoinedIsClean ==
    ASSUME NEW p \in Seq(Nat), NEW es, NEW texts, \A k \in DOMAIN es : texts[k] \in Texts
    PROVE  /\ Joined(p, es, texts) \in Texts
           /\ ~InRecovery(p) /\ (\A k \in DOMAIN es : es[k].code = 0 => Clean(texts[k]))
                => Clean(Joined(p, es, texts))
<1> DEFINE j == Joined(p, es, texts)
           header == Piece(p, "header")
<1>1. header \in Pieces /\ header.from = p /\ header.state = "header"
  BY DEF Piece, Pieces, States
<1>2. \A T \in Texts : Labelled(T) \in Texts /\ \A y \in Labelled(T) : y.state = "rejected"
  <2> SUFFICES ASSUME NEW T \in Texts, NEW y \in Labelled(T)
               PROVE  y \in Pieces /\ y.state = "rejected"
    BY DEF Texts
  <2>1. PICK x \in T : y = [x EXCEPT !.state = "rejected"]
    BY DEF Labelled
  <2>2. x \in Pieces
    BY DEF Texts
  <2> QED
    BY <2>1, <2>2 DEF Pieces, States
<1>3. ASSUME NEW x \in j
      PROVE  \/ x = header
             \/ \E k \in DOMAIN es : es[k].code = 0 /\ x \in texts[k]
             \/ \E k \in DOMAIN es : x \in Labelled(texts[k])
  BY DEF Joined
<1> HIDE DEF j, header
<1>4. j \in Texts
  BY <1>1, <1>2, <1>3 DEF Texts
<1>5. ASSUME ~InRecovery(p), \A k \in DOMAIN es : es[k].code = 0 => Clean(texts[k])
      PROVE  Clean(j)
  <2> SUFFICES ASSUME NEW x \in j, x.state # "rejected"
               PROVE  IF x.state = "failed" THEN x.spilled ELSE ~InRecovery(x.from)
    BY DEF Clean
  <2>1. CASE x = header
    BY <1>1, <1>5, <2>1
  <2>2. CASE \E k \in DOMAIN es : es[k].code = 0 /\ x \in texts[k]
    BY <1>5, <2>2 DEF Clean
  <2>3. CASE \E k \in DOMAIN es : x \in Labelled(texts[k])
    BY <1>2, <2>3
  <2> QED
    BY <1>3, <2>1, <2>2, <2>3
<1> QED
  BY <1>4, <1>5 DEF j

LEMMA JoinOK ==
    ASSUME NEW p \in Seq(Nat), NEW cfg \in Config, NEW returned,
           DOMAIN returned = DOMAIN cfg.kids,
           \A k \in DOMAIN returned : ResultOK(p, returned[k])
    PROVE  ResultOK(p, JoinedExecution(p, cfg, returned))
<1> DEFINE es == [k \in DOMAIN returned |->
                    IF returned[k].truncated /\ returned[k].full = Unreadable
                    THEN Incomplete(returned[k]) ELSE returned[k]]
           failed == {k \in DOMAIN es : es[k].code # 0}
           usable == {k \in DOMAIN es : Usable(es[k])}
           unmet == cfg.quorum # Unset /\ Cardinality(usable) < cfg.quorum
           First(K) == CHOOSE k \in K : \A l \in K : k <= l
           code == IF failed = {} THEN 1 ELSE es[First(failed)].code
           out == Joined(p, es, [k \in DOMAIN es |-> es[k].out])
           full == Joined(p, es, [k \in DOMAIN es |-> Full(es[k])])
           bytes == \E k \in DOMAIN es : es[k].bytes
           truncated == \E k \in DOMAIN es : es[k].truncated
           result == Execution(0, out, full, bytes, truncated, "default")
           roots == RootFailures(cfg, es)
<1>1. \A K : K \subseteq DOMAIN es /\ K # {} => First(K) \in K
  <2>1. DOMAIN es \subseteq Nat
    BY KidsAreConfig
  <2> HIDE DEF es
  <2> QED
    BY <2>1, FirstOfSome
<1>2. \A k \in DOMAIN es :
        /\ es[k] \in Results
        /\ es[k].code = 0 => es[k] = returned[k]
        /\ es[k].code = 0 => ~(returned[k].truncated /\ returned[k].full = Unreadable)
        /\ es[k].code = 0 => ResultOK(p, es[k])
  <2> SUFFICES ASSUME NEW k \in DOMAIN returned
               PROVE  /\ es[k] \in Results
                      /\ es[k].code = 0 => es[k] = returned[k]
                      /\ es[k].code = 0 => ~(returned[k].truncated /\ returned[k].full = Unreadable)
                      /\ es[k].code = 0 => ResultOK(p, es[k])
    OBVIOUS
  <2>1. CASE returned[k].truncated /\ returned[k].full = Unreadable
    <3>1. es[k] = Incomplete(returned[k])
      BY <2>1
    <3>2. ResultOK(p, returned[k])
      OBVIOUS
    <3> HIDE DEF es
    <3>3. Incomplete(returned[k]) \in Results /\ Incomplete(returned[k]).code = 74
      BY <3>2, IncompleteOK
    <3>4. es[k] \in Results /\ es[k].code = 74
      BY <3>1, <3>3
    <3> QED
      BY <3>4
  <2>2. CASE ~(returned[k].truncated /\ returned[k].full = Unreadable)
    <3>1. es[k] = returned[k]
      BY <2>2
    <3> QED
      BY <2>2, <3>1 DEF ResultOK
  <2> QED
    BY <2>1, <2>2
<1>3. DOMAIN es = DOMAIN returned
  OBVIOUS
<1> HIDE DEF es
<1>4. \A k \in DOMAIN es : es[k].out \in Texts /\ Full(es[k]) \in Texts
  BY <1>2 DEF Results, Full
<1>5. ASSUME ~InRecovery(p), NEW k \in DOMAIN es, es[k].code = 0
      PROVE  Clean(es[k].out) /\ Clean(Full(es[k]))
  BY <1>2, <1>5 DEF ResultOK, Full
<1>6. /\ out \in Texts /\ full \in Texts
      /\ ~InRecovery(p) => Clean(out) /\ Clean(full)
  <2> DEFINE outs == [k \in DOMAIN es |-> es[k].out]
             fulls == [k \in DOMAIN es |-> Full(es[k])]
  <2>1. \A k \in DOMAIN es : outs[k] \in Texts /\ fulls[k] \in Texts
    BY <1>4
  <2>2. ~InRecovery(p) =>
           \A k \in DOMAIN es : es[k].code = 0 => Clean(outs[k]) /\ Clean(fulls[k])
    BY <1>5
  <2> HIDE DEF outs, fulls
  <2>3. Joined(p, es, outs) \in Texts /\ Joined(p, es, fulls) \in Texts
    BY <2>1, JoinedIsClean
  <2>4. ~InRecovery(p) => Clean(Joined(p, es, outs)) /\ Clean(Joined(p, es, fulls))
    BY <2>1, <2>2, JoinedIsClean
  <2> QED
    BY <2>3, <2>4 DEF outs, fulls
<1>7. code \in Nat
  <2>1. CASE failed = {}
    BY <2>1
  <2>2. CASE failed # {}
    <3>1. First(failed) \in DOMAIN es
      BY <1>1, <2>2
    <3>2. es[First(failed)] \in Results
      BY <1>2, <3>1
    <3> HIDE DEF failed, First
    <3> QED
      BY <2>2, <3>2 DEF Results
  <2> QED
    BY <2>1, <2>2
<1>8. ASSUME roots # {}
      PROVE  ResultOK(p, [es[First(roots)] EXCEPT !.scope = "root"])
  <2>1. roots \subseteq DOMAIN es /\ \A k \in roots : es[k].code # 0
    BY DEF RootFailures
  <2>2. First(roots) \in roots
    BY <1>1, <1>8, <2>1
  <2>3. es[First(roots)] \in Results /\ es[First(roots)].code # 0
    BY <1>2, <2>1, <2>2
  <2> HIDE DEF roots, First
  <2> DEFINE e == es[First(roots)]
  <2>4. [e EXCEPT !.scope = "root"] \in Results /\ [e EXCEPT !.scope = "root"].code # 0
        /\ [e EXCEPT !.scope = "root"].scope = "root"
    BY <2>3 DEF Results, ScopeNames
  <2> HIDE DEF e
  <2> QED
    BY <2>4 DEF ResultOK, PassedOn, e
<1>9. bytes \in BOOLEAN /\ truncated \in BOOLEAN
  OBVIOUS
<1> HIDE DEF out, full, code, bytes, truncated
<1>10. ResultOK(p, result)
  <2>1. /\ result \in Results /\ result.code = 0 /\ result.out = out /\ result.full = full
    BY <1>6, <1>9 DEF Execution, Results, ScopeNames
  <2> HIDE DEF result
  <2> QED
    BY <1>6, <2>1 DEF ResultOK, PassedOn
<1>11. ASSUME NEW scope \in {"branch", "root"}
       PROVE  ResultOK(p, [result EXCEPT !.code = code, !.scope = scope])
  <2> DEFINE w == [result EXCEPT !.code = code, !.scope = scope]
  <2>1. result \in [code : Nat, out : {out}, full : {full}, bytes : {bytes},
                    truncated : {truncated}, scope : ScopeNames]
    BY DEF Execution, ScopeNames
  <2> HIDE DEF result
  <2>2. w \in [code : {code}, out : {out}, full : {full}, bytes : {bytes},
               truncated : {truncated}, scope : {scope}]
    BY <2>1
  <2> HIDE DEF w
  <2>3. w \in Results /\ w.code = code /\ w.out = out /\ w.full = full /\ w.scope = scope
    BY <1>6, <1>7, <1>9, <2>2 DEF Results, ScopeNames
  <2> QED
    BY <1>6, <2>3 DEF ResultOK, PassedOn, w
<1>12. \/ roots # {} /\ JoinedExecution(p, cfg, returned)
                          = [es[First(roots)] EXCEPT !.scope = "root"]
       \/ JoinedExecution(p, cfg, returned) = [result EXCEPT !.code = code, !.scope = "root"]
       \/ JoinedExecution(p, cfg, returned) = [result EXCEPT !.code = code, !.scope = "branch"]
       \/ JoinedExecution(p, cfg, returned) = result
  BY DEF JoinedExecution, es, out, full, code, bytes, truncated
<1> HIDE DEF roots, First, result
<1> QED
  BY <1>8, <1>10, <1>11, <1>12

-----------------------------------------------------------------------------
(* The inductive invariant: what every call that has not returned holds.   *)

FrameOK(p, f) ==
    /\ f \in Frames
    /\ ~InRecovery(p) => Clean(f.stdin)
    /\ f.at = "returned" => ResultOK(p, f.result)
    /\ f.at = "steps" => f.i \in DOMAIN f.cfg.kids
    /\ f.at \in {"branches", "rejected"} =>
          /\ DOMAIN f.got = DOMAIN f.cfg.kids
          /\ \A k \in DOMAIN f.got : f.got[k] # NoExecution => ResultOK(p, f.got[k])

AllOK(fs) == \A p \in DOMAIN fs : p \in Seq(Nat) /\ FrameOK(p, fs[p])

FramesInv == AllOK(frames)

LEMMA FrameTypes ==
    ASSUME NEW p, NEW f, FrameOK(p, f)
    PROVE  /\ f.cfg \in Config /\ f.stdin \in Texts /\ f.root \in BOOLEAN
           /\ f.i \in Nat /\ f.at \in Places
BY DEF FrameOK, Frames

LEMMA CalledOK ==
    ASSUME NEW q \in Seq(Nat), NEW cfg \in Config, NEW stdin \in Texts, NEW root \in BOOLEAN,
           ~InRecovery(q) => Clean(stdin)
    PROVE  FrameOK(q, Called(cfg, stdin, root))
<1> DEFINE f == Called(cfg, stdin, root)
<1>1. <<>> \in Seq(Results \cup {NoExecution}) /\ NoExecution \in Results \cup {NoExecution}
  BY EmptySeq
<1>2. f = [cfg |-> cfg, stdin |-> stdin, root |-> root, at |-> "called", i |-> 0,
           result |-> NoExecution, got |-> <<>>]
  BY DEF Called
<1>3. f \in Frames /\ f.stdin = stdin /\ f.at = "called"
  BY <1>1, <1>2 DEF Frames, Places
<1> HIDE DEF f
<1> QED
  BY <1>3 DEF FrameOK, f

LEMMA ReturnedOK ==
    ASSUME NEW p, NEW f, FrameOK(p, f), NEW e, ResultOK(p, e)
    PROVE  FrameOK(p, [f EXCEPT !.at = "returned", !.result = e])
<1> DEFINE g == [f EXCEPT !.at = "returned", !.result = e]
<1>1. e \in Results /\ f \in Frames
  BY DEF ResultOK, FrameOK
<1>2. g \in Frames /\ g.stdin = f.stdin /\ g.at = "returned" /\ g.result = e
  BY <1>1 DEF Frames, Places
<1> HIDE DEF g
<1> QED
  BY <1>2 DEF FrameOK, g

\* A call goes on to wait for a command or for another call.
LEMMA MovedOK ==
    ASSUME NEW p, NEW f, FrameOK(p, f), NEW at, NEW i \in Nat,
           \/ at \in {"attempt", "recover", "object", "command"}
           \/ at = "steps" /\ i \in DOMAIN f.cfg.kids
    PROVE  FrameOK(p, [f EXCEPT !.at = at, !.i = i])
<1> DEFINE g == [f EXCEPT !.at = at, !.i = i]
<1>1. f \in Frames
  BY DEF FrameOK
<1>2. at \in Places
  BY DEF Places
<1>3. g \in Frames /\ g.stdin = f.stdin /\ g.at = at /\ g.i = i /\ g.cfg = f.cfg
  BY <1>1, <1>2 DEF Frames
<1> HIDE DEF g
<1> QED
  BY <1>3 DEF FrameOK, g

-----------------------------------------------------------------------------
(* Changes of the calls.                                                   *)

LEMMA OneChanged ==
    ASSUME NEW fs, AllOK(fs), NEW p \in DOMAIN fs, NEW g, FrameOK(p, g)
    PROVE  AllOK([fs EXCEPT ![p] = g])
BY DEF AllOK

LEMMA AllReturning ==
    ASSUME NEW fs, AllOK(fs), NEW p \in DOMAIN fs, NEW e, ResultOK(p, e)
    PROVE  AllOK(Returning(fs, p, e))
<1> DEFINE g == [fs[p] EXCEPT !.at = "returned", !.result = e]
           gs == Returning(fs, p, e)
<1>1. FrameOK(p, g)
  BY ReturnedOK DEF AllOK
<1>2. DOMAIN gs = DOMAIN fs /\ \A q \in DOMAIN fs : gs[q] = IF q = p THEN g ELSE fs[q]
  BY DEF Returning
<1> HIDE DEF g, gs
<1> QED
  BY <1>1, <1>2 DEF AllOK, gs

LEMMA AllMoved ==
    ASSUME NEW fs, AllOK(fs), NEW p \in DOMAIN fs, NEW at, NEW i \in Nat,
           \/ at \in {"attempt", "recover", "object", "command"}
           \/ at = "steps" /\ i \in DOMAIN fs[p].cfg.kids
    PROVE  AllOK([fs EXCEPT ![p].at = at, ![p].i = i])
<1> DEFINE g == [fs[p] EXCEPT !.at = at, !.i = i]
           gs == [fs EXCEPT ![p].at = at, ![p].i = i]
<1>1. FrameOK(p, g)
  BY MovedOK DEF AllOK
<1>2. DOMAIN gs = DOMAIN fs /\ \A q \in DOMAIN fs : gs[q] = IF q = p THEN g ELSE fs[q]
  OBVIOUS
<1> HIDE DEF g, gs
<1> QED
  BY <1>1, <1>2 DEF AllOK, gs

LEMMA AllDropping ==
    ASSUME NEW fs, AllOK(fs), NEW P
    PROVE  /\ AllOK(Dropping(fs, P)) /\ DOMAIN Dropping(fs, P) = DOMAIN fs \ P
           /\ \A q \in DOMAIN fs \ P : Dropping(fs, P)[q] = fs[q]
BY DEF AllOK, Dropping

LEMMA AllWith ==
    ASSUME NEW fs, AllOK(fs), NEW q \in Seq(Nat), NEW cfg \in Config, NEW stdin \in Texts,
           NEW root \in BOOLEAN, ~InRecovery(q) => Clean(stdin)
    PROVE  AllOK(With(fs, q, cfg, stdin, root))
<1>1. FrameOK(q, Called(cfg, stdin, root))
  BY CalledOK
<1> QED
  BY <1>1 DEF AllOK, With

LEMMA NothingIsClean == {} \in Texts /\ Clean({})
BY DEF Texts, Clean

\* What a part has returned its caller can take.
LEMMA PartReturned ==
    ASSUME FramesInv, NEW p \in DOMAIN frames, NEW k \in Nat, Back(p, k)
    PROVE  /\ p \in Seq(Nat) /\ FrameOK(p, frames[p])
           /\ AllOK(Taken(p, k)) /\ p \in DOMAIN Taken(p, k) /\ Taken(p, k)[p] = frames[p]
           /\ ResultOK(Append(p, k), Returned(p, k))
           /\ k # 0 => ResultOK(p, Returned(p, k))
<1> DEFINE q == Append(p, k)
<1>1. p \in Seq(Nat) /\ FrameOK(p, frames[p])
  BY DEF FramesInv, AllOK
<1>2. q \in DOMAIN frames /\ FrameOK(q, frames[q]) /\ frames[q].at = "returned"
  BY DEF FramesInv, AllOK, Back, Waits
<1>3. q # p /\ (InRecovery(q) <=> InRecovery(p) \/ k = 0)
  BY <1>1, RecoveryPaths
<1> HIDE DEF q
<1>4. ResultOK(q, frames[q].result)
  BY <1>2 DEF FrameOK
<1>5. k # 0 => ResultOK(p, frames[q].result)
  BY <1>3, <1>4 DEF ResultOK
<1>6. Taken(p, k) = Dropping(frames, {q})
  BY DEF Taken, q
<1>7. AllOK(Taken(p, k)) /\ p \in DOMAIN Taken(p, k) /\ Taken(p, k)[p] = frames[p]
  <2>1. AllOK(Dropping(frames, {q}))
    BY AllDropping DEF FramesInv
  <2>2. p \in DOMAIN Dropping(frames, {q}) /\ Dropping(frames, {q})[p] = frames[p]
    BY <1>3 DEF Dropping
  <2> QED
    BY <1>6, <2>1, <2>2
<1> QED
  BY <1>1, <1>4, <1>5, <1>7 DEF Returned, q

LEMMA AllPlaced ==
    ASSUME NEW fs, AllOK(fs), NEW p \in DOMAIN fs,
           NEW at \in {"attempt", "recover", "object", "command"}
    PROVE  AllOK([fs EXCEPT ![p].at = at])
<1> DEFINE g == [fs[p] EXCEPT !.at = at]
<1>1. FrameOK(p, fs[p]) /\ fs[p] \in Frames
  BY DEF AllOK, FrameOK
<1>2. g \in Frames /\ g.stdin = fs[p].stdin /\ g.at = at
  BY <1>1 DEF Frames, Places
<1> HIDE DEF g
<1>3. FrameOK(p, g)
  BY <1>1, <1>2 DEF FrameOK
<1>4. AllOK([fs EXCEPT ![p] = g])
  BY <1>3, OneChanged
<1> QED
  BY <1>4 DEF g

LEMMA AllCounted ==
    ASSUME NEW fs, AllOK(fs), NEW p \in DOMAIN fs, NEW i \in Nat,
           \/ fs[p].at \in {"attempt", "recover", "command", "branches", "rejected"}
           \/ fs[p].at = "steps" /\ i \in DOMAIN fs[p].cfg.kids
    PROVE  AllOK([fs EXCEPT ![p].i = i])
<1> DEFINE g == [fs[p] EXCEPT !.i = i]
<1>1. FrameOK(p, fs[p]) /\ fs[p] \in Frames
  BY DEF AllOK, FrameOK
<1>2. /\ g \in Frames /\ g.stdin = fs[p].stdin /\ g.at = fs[p].at /\ g.i = i
      /\ g.cfg = fs[p].cfg /\ g.got = fs[p].got
  BY <1>1 DEF Frames
<1> HIDE DEF g
<1>3. FrameOK(p, g)
  BY <1>1, <1>2 DEF FrameOK
<1>4. AllOK([fs EXCEPT ![p] = g])
  BY <1>3, OneChanged
<1> QED
  BY <1>4 DEF g

-----------------------------------------------------------------------------
(* A call begins.                                                          *)

\* What a call that has not begun knows of itself.
LEMMA Beginning ==
    ASSUME FramesInv, NEW p \in DOMAIN frames
    PROVE  /\ AllOK(frames) /\ p \in Seq(Nat) /\ FrameOK(p, frames[p])
           /\ frames[p].cfg \in Config /\ frames[p].stdin \in Texts
           /\ frames[p].root \in BOOLEAN /\ frames[p].i \in Nat
           /\ ~InRecovery(p) => Clean(frames[p].stdin)
BY FrameTypes DEF FramesInv, AllOK, FrameOK

LEMMA SkipKeeps ==
    ASSUME FramesInv, NEW p \in DOMAIN frames, Skip(p) PROVE AllOK(frames')
<1> DEFINE in == frames[p].stdin
           e == Execution(0, in, in, in # {}, FALSE, "default")
<1>1. frames' = Returning(frames, p, e)
  BY DEF Skip, Go
<1>2. in \in Texts /\ (~InRecovery(p) => Clean(in))
  BY Beginning
<1> HIDE DEF in
<1>3. e \in Results /\ e.code = 0 /\ e.out = in /\ e.full = in
  BY <1>2 DEF Execution, Results, ScopeNames
<1> HIDE DEF e
<1>4. ResultOK(p, e)
  BY <1>2, <1>3 DEF ResultOK, PassedOn
<1> QED
  BY <1>1, <1>4, AllReturning, Beginning

LEMMA RepeatKeeps ==
    ASSUME FramesInv, NEW p \in DOMAIN frames, Repeat(p) PROVE AllOK(frames')
<1> DEFINE f == frames[p]
           cfg == Repeated(f.cfg)
           g == [f EXCEPT !.cfg = cfg]
<1>1. frames' = [frames EXCEPT ![p] = g]
  BY DEF Repeat, Go
<1>2. FrameOK(p, f) /\ f \in Frames /\ f.cfg \in Config
  BY Beginning DEF FrameOK
<1>3. f.at = "called" /\ f.cfg.repeat # Unset
  BY DEF Repeat, Runs, Begins, Waits
<1>4. cfg \in Config
  BY <1>2, <1>3, RepeatedIsConfig
<1> HIDE DEF cfg
<1>5. g \in Frames /\ g.stdin = f.stdin /\ g.at = "called"
  BY <1>2, <1>3, <1>4 DEF Frames
<1> HIDE DEF g
<1>6. FrameOK(p, g)
  BY <1>2, <1>5 DEF FrameOK
<1> QED
  BY <1>1, <1>6, OneChanged, Beginning

LEMMA AttemptKeeps ==
    ASSUME FramesInv, NEW p \in DOMAIN frames, Attempt(p) PROVE AllOK(frames')
<1> DEFINE f == frames[p]
           on == [frames EXCEPT ![p].at = "attempt", ![p].i = 1]
<1>1. frames' = With(on, Append(p, 1), Attempted(f.cfg), f.stdin, f.root)
  BY DEF Attempt, Go
<1>2. AllOK(on)
  BY Beginning, AllMoved
<1>3. Append(p, 1) \in Seq(Nat) /\ (InRecovery(Append(p, 1)) <=> InRecovery(p))
  BY Beginning, RecoveryPaths
<1>4. Attempted(f.cfg) \in Config
  BY Beginning, AttemptedIsConfig
<1> HIDE DEF on
<1> QED
  BY <1>1, <1>2, <1>3, <1>4, Beginning, AllWith

LEMMA UnwrapKeeps ==
    ASSUME FramesInv, NEW p \in DOMAIN frames, Unwrap(p) PROVE AllOK(frames')
<1> DEFINE f == frames[p]
           on == [frames EXCEPT ![p].at = "object"]
<1>1. frames' = With(on, Append(p, 1), f.cfg.kids[1], f.stdin, FALSE)
  BY DEF Unwrap, Go
<1>2. AllOK(on)
  BY Beginning, AllPlaced
<1>3. Append(p, 1) \in Seq(Nat) /\ (InRecovery(Append(p, 1)) <=> InRecovery(p))
  BY Beginning, RecoveryPaths
<1>4. f.cfg.kids[1] \in Config
  <2>1. f.cfg \in Config /\ f.cfg.body = "object"
    BY Beginning DEF Unwrap
  <2>2. Len(f.cfg.kids) = 1
    BY <2>1 DEF Config, Wraps
  <2> QED
    BY <2>1, <2>2, KidsAreConfig
<1> HIDE DEF on
<1> QED
  BY <1>1, <1>2, <1>3, <1>4, Beginning, AllWith

LEMMA StartCommandKeeps ==
    ASSUME FramesInv, NEW p \in DOMAIN frames, StartCommand(p) PROVE AllOK(frames')
<1>1. frames' = [frames EXCEPT ![p].at = "command", ![p].i = 1]
  BY DEF StartCommand, Go
<1> QED
  BY <1>1, Beginning, AllMoved

LEMMA StartStepsKeeps ==
    ASSUME FramesInv, NEW p \in DOMAIN frames, StartSteps(p) PROVE AllOK(frames')
<1> DEFINE f == frames[p]
           on == [frames EXCEPT ![p].at = "steps", ![p].i = 1]
<1>1. frames' = With(on, Append(p, 1), f.cfg.kids[1], f.stdin, FALSE)
  BY DEF StartSteps, Go
<1>2. 1 \in DOMAIN f.cfg.kids /\ f.cfg.kids[1] \in Config
  <2>1. f.cfg \in Config /\ f.cfg.kids # <<>>
    BY Beginning DEF StartSteps
  <2>2. f.cfg.kids \in Seq(Derived)
    BY <2>1 DEF Config, NodeOf
  <2>3. 1 \in DOMAIN f.cfg.kids
    BY <2>1, <2>2, EmptySeq
  <2> QED
    BY <2>1, <2>3, KidsAreConfig
<1>3. AllOK(on)
  BY <1>2, Beginning, AllMoved
<1>4. Append(p, 1) \in Seq(Nat) /\ (InRecovery(Append(p, 1)) <=> InRecovery(p))
  BY Beginning, RecoveryPaths
<1> HIDE DEF on
<1> QED
  BY <1>1, <1>2, <1>3, <1>4, Beginning, AllWith

LEMMA StartBranchesKeeps ==
    ASSUME FramesInv, NEW p \in DOMAIN frames, StartBranches(p) PROVE AllOK(frames')
<1> DEFINE f == frames[p]
           n == Workers(f.cfg)
           branches == {Append(p, k) : k \in 1..n}
           none == [k \in DOMAIN f.cfg.kids |-> NoExecution]
           g == [f EXCEPT !.at = "branches", !.i = n, !.got = none]
<1>1. frames' = [q \in DOMAIN frames \cup branches |->
                   IF q \in branches THEN Called(f.cfg.kids[Last(q)], f.stdin, FALSE)
                   ELSE IF q = p THEN g ELSE frames[q]]
  BY DEF StartBranches, Go
<1>2. /\ p \in Seq(Nat) /\ FrameOK(p, f) /\ f.cfg \in Config /\ f.stdin \in Texts
      /\ ~InRecovery(p) => Clean(f.stdin)
  BY Beginning
<1>3. n \in Nat /\ 1..n \subseteq DOMAIN f.cfg.kids
  <2>1. Len(f.cfg.kids) \in Nat /\ DOMAIN f.cfg.kids = 1..Len(f.cfg.kids)
    BY <1>2, KidsAreConfig
  <2>2. f.cfg.concurrency \in {Unset} \cup (Nat \ {0})
    BY <1>2 DEF Config, NodeOf
  <2> HIDE DEF f
  <2> QED
    BY <2>1, <2>2 DEF Workers
<1>4. FrameOK(p, g)
  <2>1. none \in Seq(Results \cup {NoExecution})
    <3>1. Len(f.cfg.kids) \in Nat /\ DOMAIN f.cfg.kids = 1..Len(f.cfg.kids)
      BY <1>2, KidsAreConfig
    <3> QED
      BY <3>1, IsASeq
  <2>2. DOMAIN none = DOMAIN f.cfg.kids /\ \A k \in DOMAIN none : none[k] = NoExecution
    OBVIOUS
  <2>3. f \in Frames
    BY <1>2 DEF FrameOK
  <2> HIDE DEF none, n, f
  <2>4. /\ g \in Frames /\ g.stdin = f.stdin /\ g.at = "branches" /\ g.got = none
        /\ g.cfg = f.cfg
    BY <1>3, <2>1, <2>3 DEF Frames, Places
  <2> HIDE DEF g
  <2> QED
    BY <1>2, <2>2, <2>4 DEF FrameOK
<1>5. ASSUME NEW q \in branches
      PROVE  q \in Seq(Nat) /\ FrameOK(q, Called(f.cfg.kids[Last(q)], f.stdin, FALSE))
  <2>1. PICK k \in 1..n : q = Append(p, k)
    OBVIOUS
  <2>2. k \in Nat /\ k # 0 /\ k \in DOMAIN f.cfg.kids
    BY <1>3
  <2>3. q \in Seq(Nat) /\ (InRecovery(q) <=> InRecovery(p)) /\ Last(q) = k
    BY <1>2, <2>1, <2>2, RecoveryPaths
  <2>4. f.cfg.kids[Last(q)] \in Config
    BY <1>2, <2>2, <2>3, KidsAreConfig
  <2> QED
    BY <1>2, <2>3, <2>4, CalledOK
<1> HIDE DEF g, branches
<1>6. ASSUME NEW q \in DOMAIN frames' PROVE q \in Seq(Nat) /\ FrameOK(q, frames'[q])
  <2>1. CASE q \in branches
    BY <1>1, <1>5, <2>1
  <2>2. CASE q \notin branches /\ q = p
    BY <1>1, <1>2, <1>4, <2>2
  <2>3. CASE q \notin branches /\ q # p
    BY <1>1, <2>3 DEF FramesInv, AllOK
  <2> QED
    BY <2>1, <2>2, <2>3
<1> QED
  BY <1>6 DEF AllOK

LEMMA ThrowKeeps ==
    ASSUME FramesInv, NEW p \in DOMAIN frames, Throw(p) PROVE AllOK(frames')
<1>1. ASSUME NEW q \in DOMAIN frames, frames[q].at \in {"branches", "rejected"}
      PROVE  FrameOK(q, [frames[q] EXCEPT !.at = "rejected"])
  <2> DEFINE f == frames[q]
             g == [f EXCEPT !.at = "rejected"]
  <2>1. FrameOK(q, f) /\ f \in Frames
    BY DEF FramesInv, AllOK, FrameOK
  <2>2. /\ g \in Frames /\ g.stdin = f.stdin /\ g.at = "rejected" /\ g.cfg = f.cfg
        /\ g.got = f.got
    BY <2>1 DEF Frames, Places
  <2> HIDE DEF g
  <2> QED
    BY <1>1, <2>1, <2>2 DEF FrameOK, g
<1>2. ASSUME NEW q \in DOMAIN frames'
      PROVE  /\ q \in DOMAIN frames
             /\ \/ frames'[q] = frames[q]
                \/ /\ frames[q].at \in {"branches", "rejected"}
                   /\ frames'[q] = [frames[q] EXCEPT !.at = "rejected"]
  BY DEF Throw
<1> QED
  BY <1>1, <1>2 DEF FramesInv, AllOK

-----------------------------------------------------------------------------
(* A command ends, or a call takes what the call it made returned.         *)

LEMMA CommandEndsKeeps ==
    ASSUME FramesInv, NEW p \in DOMAIN frames, CommandEnds(p) PROVE AllOK(frames')
<1> DEFINE f == frames[p]
<1>1. p \in Seq(Nat) /\ f.at = "command" /\ f.i \in Nat
  BY Beginning DEF CommandEnds, Waits
<1>2. PICK raw \in CommandResults(p) :
         \/ frames' = [frames EXCEPT ![p].i = f.i + 1]
         \/ \E e \in Judged(f.cfg, raw) : frames' = Returning(frames, p, e)
  BY DEF CommandEnds, Go
<1>3. CASE frames' = [frames EXCEPT ![p].i = f.i + 1]
  <2>1. f.i + 1 \in Nat
    BY <1>1
  <2> QED
    BY <1>1, <1>3, <2>1, Beginning, AllCounted
<1>4. ASSUME NEW e \in Judged(f.cfg, raw), frames' = Returning(frames, p, e)
      PROVE  AllOK(frames')
  <2>1. /\ ResultOK(p, raw) /\ raw.scope = "default"
        /\ raw.code # 0 => \A x \in raw.out : x.state = "failed"
        /\ raw.truncated /\ raw.full # Unreadable => \A x \in raw.full : x.spilled
    BY <1>1, CommandResultsOK
  <2>2. ResultOK(p, e)
    BY <1>4, <2>1, JudgedOK
  <2> QED
    BY <1>4, <2>2, Beginning, AllReturning
<1> QED
  BY <1>2, <1>3, <1>4

LEMMA UnwrappedKeeps ==
    ASSUME FramesInv, NEW p \in DOMAIN frames, Unwrapped(p) PROVE AllOK(frames')
<1>1. frames' = Returning(Taken(p, 1), p, Returned(p, 1)) /\ Back(p, 1)
  BY DEF Unwrapped, Go
<1>2. AllOK(Taken(p, 1)) /\ p \in DOMAIN Taken(p, 1) /\ ResultOK(p, Returned(p, 1))
  BY <1>1, PartReturned
<1> QED
  BY <1>1, <1>2, AllReturning

LEMMA AttemptReturnsKeeps ==
    ASSUME FramesInv, NEW p \in DOMAIN frames, AttemptReturns(p) PROVE AllOK(frames')
<1> DEFINE f == frames[p]
           e == Returned(p, 1)
           on == Taken(p, 1)
           again == [on EXCEPT ![p].i = on[p].i + 1]
           recovers == [on EXCEPT ![p].at = "recover"]
<1>1. f.at = "attempt" /\ Back(p, 1)
  BY DEF AttemptReturns, Waits
<1>2. \/ frames' = Returning(on, p, e)
      \/ frames' = With(again, Append(p, 1), Attempted(f.cfg), f.stdin, f.root)
      \/ /\ f.cfg.recover # NoTemplate
         /\ frames' = With(recovers, Append(p, 0), Recovery(f.cfg), e.out, FALSE)
  BY DEF AttemptReturns, Go
<1>3. AllOK(on) /\ p \in DOMAIN on /\ on[p] = f /\ ResultOK(p, e)
  BY <1>1, PartReturned
<1>4. /\ p \in Seq(Nat) /\ f.cfg \in Config /\ f.stdin \in Texts /\ f.root \in BOOLEAN
      /\ f.i \in Nat /\ (~InRecovery(p) => Clean(f.stdin))
  BY Beginning
<1> HIDE DEF f, on, e
<1>5. CASE frames' = Returning(on, p, e)
  BY <1>3, <1>5, AllReturning
<1>6. CASE frames' = With(again, Append(p, 1), Attempted(f.cfg), f.stdin, f.root)
  <2>1. AllOK(again)
    <3>1. on[p].i + 1 \in Nat
      BY <1>3, <1>4
    <3> QED
      BY <1>1, <1>3, <3>1, AllCounted DEF f
  <2>2. Append(p, 1) \in Seq(Nat) /\ (InRecovery(Append(p, 1)) <=> InRecovery(p))
    BY <1>4, RecoveryPaths
  <2>3. Attempted(f.cfg) \in Config
    BY <1>4, AttemptedIsConfig
  <2> HIDE DEF again
  <2> QED
    BY <1>4, <1>6, <2>1, <2>2, <2>3, AllWith
<1>7. CASE /\ f.cfg.recover # NoTemplate
           /\ frames' = With(recovers, Append(p, 0), Recovery(f.cfg), e.out, FALSE)
  <2>1. AllOK(recovers)
    BY <1>3, AllPlaced
  <2>2. Append(p, 0) \in Seq(Nat) /\ InRecovery(Append(p, 0))
    BY <1>4, RecoveryPaths
  <2>3. Recovery(f.cfg) \in Config
    BY <1>4, <1>7, RecoveryIsConfig
  <2>4. e.out \in Texts
    BY <1>3 DEF ResultOK, Results
  <2> HIDE DEF recovers
  <2> QED
    BY <1>7, <2>1, <2>2, <2>3, <2>4, AllWith
<1> QED
  BY <1>2, <1>5, <1>6, <1>7

LEMMA RecoveryReturnsKeeps ==
    ASSUME FramesInv, NEW p \in DOMAIN frames, RecoveryReturns(p) PROVE AllOK(frames')
<1> DEFINE f == frames[p]
           e == Returned(p, 0)
           on == Taken(p, 0)
           again == [on EXCEPT ![p].at = "attempt", ![p].i = on[p].i + 1]
           scope == Widest({e.scope, f.cfg.failure})
<1>1. Back(p, 0)
  BY DEF RecoveryReturns
<1>2. \/ frames' = With(again, Append(p, 1), Attempted(f.cfg), f.stdin, f.root)
      \/ /\ e.code # 0
         /\ frames' = Returning(on, p, [e EXCEPT !.scope = scope])
  <2>1. [on EXCEPT ![p].at = "attempt", ![p].i = @ + 1] = again
    OBVIOUS
  <2> QED
    BY <2>1 DEF RecoveryReturns, Go
<1>3. AllOK(on) /\ p \in DOMAIN on /\ on[p] = f /\ ResultOK(Append(p, 0), e)
  BY <1>1, PartReturned
<1>4. /\ p \in Seq(Nat) /\ f.cfg \in Config /\ f.stdin \in Texts /\ f.root \in BOOLEAN
      /\ f.i \in Nat /\ (~InRecovery(p) => Clean(f.stdin))
  BY Beginning
<1> HIDE DEF f, on, e
<1>5. CASE frames' = With(again, Append(p, 1), Attempted(f.cfg), f.stdin, f.root)
  <2>1. AllOK(again)
    <3>1. on[p].i + 1 \in Nat
      BY <1>3, <1>4
    <3> QED
      BY <1>3, <3>1, AllMoved
  <2>2. Append(p, 1) \in Seq(Nat) /\ (InRecovery(Append(p, 1)) <=> InRecovery(p))
    BY <1>4, RecoveryPaths
  <2>3. Attempted(f.cfg) \in Config
    BY <1>4, AttemptedIsConfig
  <2> HIDE DEF again
  <2> QED
    BY <1>4, <1>5, <2>1, <2>2, <2>3, AllWith
<1>6. CASE e.code # 0 /\ frames' = Returning(on, p, [e EXCEPT !.scope = scope])
  <2>1. ResultOK(p, e)
    BY <1>3, <1>6 DEF ResultOK
  <2>2. /\ scope \in ScopeNames
        /\ scope \in {"default", "continue"} => e.scope \in {"default", "continue"}
    <3>1. e.scope \in ScopeNames
      BY <2>1 DEF ResultOK, Results
    <3>2. f.cfg.failure \in ScopeNames
      BY <1>4, KidsAreConfig
    <3> QED
      BY <3>1, <3>2, WidestScope
  <2> HIDE DEF scope
  <2>3. ResultOK(p, [e EXCEPT !.scope = scope])
    BY <2>1, <2>2, WidenedOK
  <2> QED
    BY <1>3, <1>6, <2>3, AllReturning
<1> QED
  BY <1>2, <1>5, <1>6

LEMMA BranchReturnsKeeps ==
    ASSUME FramesInv, NEW p \in DOMAIN frames, BranchReturns(p) PROVE AllOK(frames')
<1> DEFINE f == frames[p]
<1>1. PICK k \in DOMAIN f.cfg.kids :
         /\ Back(p, k)
         /\ frames' = NextBranch([Taken(p, k) EXCEPT ![p].got[k] = Returned(p, k)], p,
                                 Returned(p, k))
  BY DEF BranchReturns, Go
<1>2. /\ p \in Seq(Nat) /\ FrameOK(p, f) /\ f.cfg \in Config /\ f.stdin \in Texts
      /\ f.i \in Nat /\ (~InRecovery(p) => Clean(f.stdin))
  BY Beginning
<1>3. /\ Len(f.cfg.kids) \in Nat /\ DOMAIN f.cfg.kids = 1..Len(f.cfg.kids)
      /\ \A l \in DOMAIN f.cfg.kids : f.cfg.kids[l] \in Config
  BY <1>2, KidsAreConfig
<1>4. k \in Nat /\ k # 0
  BY <1>3
<1> DEFINE e == Returned(p, k)
           on == Taken(p, k)
           g == [f EXCEPT !.got[k] = e]
           taken == [on EXCEPT ![p].got[k] = e]
<1>5. AllOK(on) /\ p \in DOMAIN on /\ on[p] = f /\ ResultOK(p, e)
  BY <1>1, <1>4, PartReturned
<1>6. f.at \in {"branches", "rejected"}
  BY DEF BranchReturns, Waits
<1> HIDE DEF on, e
<1>7. /\ FrameOK(p, g) /\ g.cfg = f.cfg /\ g.stdin = f.stdin /\ g.i = f.i /\ g.at = f.at
  <2> DEFINE got == [f.got EXCEPT ![k] = e]
  <2>1. f \in Frames /\ DOMAIN f.got = DOMAIN f.cfg.kids
    BY <1>2, <1>6 DEF FrameOK
  <2>2. f.got \in Seq(Results \cup {NoExecution}) /\ e \in Results \cup {NoExecution}
    BY <1>5, <2>1 DEF Frames, ResultOK
  <2>3. got \in Seq(Results \cup {NoExecution})
    BY <2>1, <2>2, ExceptSeq
  <2>4. g = [f EXCEPT !.got = got]
    OBVIOUS
  <2>5. /\ DOMAIN got = DOMAIN f.cfg.kids
        /\ \A l \in DOMAIN got : got[l] # NoExecution => ResultOK(p, got[l])
    BY <1>2, <1>5, <1>6, <2>1 DEF FrameOK
  <2> HIDE DEF f, got
  <2>6. /\ g \in Frames /\ g.cfg = f.cfg /\ g.stdin = f.stdin /\ g.i = f.i /\ g.at = f.at
        /\ g.got = got
    BY <2>1, <2>3, <2>4 DEF Frames
  <2> HIDE DEF g
  <2> QED
    BY <1>2, <1>6, <2>5, <2>6 DEF FrameOK
<1>8. taken = [on EXCEPT ![p] = g]
  BY <1>5
<1> HIDE DEF f, g, taken
<1>9. AllOK(taken) /\ p \in DOMAIN taken /\ taken[p] = g
  <2>1. AllOK([on EXCEPT ![p] = g])
    BY <1>5, <1>7, OneChanged
  <2> QED
    BY <1>5, <1>8, <2>1
<1>10. frames' = NextBranch(taken, p, e)
  BY <1>1 DEF taken, on, e
<1>11. CASE f.i >= Len(f.cfg.kids)
  BY <1>7, <1>9, <1>10, <1>11 DEF NextBranch
<1>12. CASE ~(f.i >= Len(f.cfg.kids))
  <2> DEFINE n == f.i + 1
             counted == [taken EXCEPT ![p].i = n]
  <2>1. n \in DOMAIN f.cfg.kids /\ n \in Nat /\ n # 0
    BY <1>2, <1>3, <1>12
  <2>2. frames' = With(counted, Append(p, n), f.cfg.kids[n], f.stdin, FALSE)
    BY <1>7, <1>9, <1>10, <1>12 DEF NextBranch
  <2>3. AllOK(counted)
    BY <1>6, <1>7, <1>9, <2>1, AllCounted
  <2>4. Append(p, n) \in Seq(Nat) /\ (InRecovery(Append(p, n)) <=> InRecovery(p))
    BY <1>2, <2>1, RecoveryPaths
  <2>5. f.cfg.kids[n] \in Config
    BY <1>3, <2>1
  <2> HIDE DEF counted, n
  <2> QED
    BY <1>2, <2>2, <2>3, <2>4, <2>5, AllWith
<1> QED
  BY <1>11, <1>12

LEMMA JoinKeeps ==
    ASSUME FramesInv, NEW p \in DOMAIN frames, Join(p) PROVE AllOK(frames')
<1> DEFINE f == frames[p]
<1>1. /\ frames' = Returning(frames, p, JoinedExecution(p, f.cfg, f.got))
      /\ f.at = "branches" /\ \A k \in DOMAIN f.got : f.got[k] # NoExecution
  BY DEF Join, Go, Waits
<1>2. p \in Seq(Nat) /\ FrameOK(p, f) /\ f.cfg \in Config
  BY Beginning
<1>3. DOMAIN f.got = DOMAIN f.cfg.kids /\ \A k \in DOMAIN f.got : ResultOK(p, f.got[k])
  BY <1>1, <1>2 DEF FrameOK
<1>4. ResultOK(p, JoinedExecution(p, f.cfg, f.got))
  BY <1>2, <1>3, JoinOK
<1> QED
  BY <1>1, <1>4, AllReturning, Beginning

LEMMA StepReturnsKeeps ==
    ASSUME FramesInv, NEW p \in DOMAIN frames, StepReturns(p) PROVE AllOK(frames')
<1> DEFINE f == frames[p]
           n == f.i + 1
           last == f.i = Len(f.cfg.kids)
           e == Returned(p, f.i)
           on == Taken(p, f.i)
           scope == StepScope(f, e)
           counted == [on EXCEPT ![p].i = on[p].i + 1]
           EndsWith(result) == frames' = Returning(on, p, result)
           GoesOn(stdin) ==
              ~last /\ frames' = With(counted, Append(p, n), f.cfg.kids[n], stdin, FALSE)
<1>1. f.at = "steps" /\ Back(p, f.i)
  BY DEF StepReturns, Waits
<1>2. \/ ~last /\ e.full = Unreadable /\ EndsWith([Incomplete(e) EXCEPT !.scope = "root"])
      \/ e.code = 0 /\ EndsWith([e EXCEPT !.scope = "default"])
      \/ e.code = 0 /\ e.full # Unreadable /\ GoesOn(e.full)
      \/ scope \in {"root", "branch"} /\ EndsWith([e EXCEPT !.scope = scope])
      \/ e.code # 0 /\ scope \notin {"root", "branch"} /\ EndsWith(Cleared(e))
      \/ GoesOn({})
  BY DEF StepReturns, Go
<1>3. /\ p \in Seq(Nat) /\ FrameOK(p, f) /\ f.cfg \in Config /\ f.root \in BOOLEAN
      /\ f.i \in Nat
  BY Beginning
<1>4. /\ Len(f.cfg.kids) \in Nat /\ DOMAIN f.cfg.kids = 1..Len(f.cfg.kids)
      /\ \A l \in DOMAIN f.cfg.kids : f.cfg.kids[l] \in Config
  BY <1>3, KidsAreConfig
<1>5. f.i \in DOMAIN f.cfg.kids /\ f.i # 0
  BY <1>1, <1>3, <1>4 DEF FrameOK
<1>6. AllOK(on) /\ p \in DOMAIN on /\ on[p] = f /\ ResultOK(p, e)
  BY <1>1, <1>3, <1>5, PartReturned
<1>7. /\ scope \in ScopeNames
      /\ scope \notin {"root", "branch"} => e.scope \in {"default", "continue"}
  <2> DEFINE S == {e.scope, f.cfg.kids[f.i].failure, f.cfg.failure,
                   IF f.root /\ Len(f.cfg.kids) = 1 THEN "root" ELSE "default"}
  <2>1. e.scope \in ScopeNames
    BY <1>6 DEF ResultOK, Results
  <2>2. f.cfg.failure \in ScopeNames /\ f.cfg.kids[f.i].failure \in ScopeNames
    BY <1>3, <1>4, <1>5, KidsAreConfig
  <2>3. S \in SUBSET ScopeNames /\ e.scope \in S
    BY <2>1, <2>2 DEF ScopeNames
  <2>4. scope = Widest(S)
    BY DEF StepScope
  <2> HIDE DEF S, scope
  <2>5. /\ Widest(S) \in S
        /\ Widest(S) \notin {"root", "branch"} => S \subseteq {"default", "continue"}
    BY <2>3, WidestScope
  <2> QED
    BY <2>3, <2>4, <2>5
<1> HIDE DEF f, e, on, scope
<1>8. ASSUME NEW result, ResultOK(p, result), EndsWith(result) PROVE AllOK(frames')
  BY <1>6, <1>8, AllReturning
<1>9. ASSUME NEW stdin \in Texts, ~InRecovery(p) => Clean(stdin), GoesOn(stdin)
      PROVE  AllOK(frames')
  <2>1. n \in DOMAIN f.cfg.kids /\ n \in Nat /\ n # 0
    BY <1>3, <1>4, <1>5, <1>9
  <2>2. AllOK(counted)
    <3>1. on[p].i + 1 = n
      BY <1>6
    <3> QED
      BY <1>1, <1>6, <2>1, <3>1, AllCounted DEF f
  <2>3. Append(p, n) \in Seq(Nat) /\ (InRecovery(Append(p, n)) <=> InRecovery(p))
    BY <1>3, <2>1, RecoveryPaths
  <2>4. f.cfg.kids[n] \in Config
    BY <1>4, <2>1
  <2>5. frames' = With(counted, Append(p, n), f.cfg.kids[n], stdin, FALSE)
    BY <1>9
  <2> HIDE DEF counted, n
  <2> QED
    BY <1>9, <2>2, <2>3, <2>4, <2>5, AllWith
<1>10. ResultOK(p, [Incomplete(e) EXCEPT !.scope = "root"])
  BY <1>6, IncompleteStops
<1>11. e.code = 0 => ResultOK(p, [e EXCEPT !.scope = "default"])
  BY <1>6, DefaultedOK
<1>12. scope \in {"root", "branch"} => ResultOK(p, [e EXCEPT !.scope = scope])
  BY <1>6, <1>7, WidenedOK
<1>13. e.code # 0 /\ scope \notin {"root", "branch"} => ResultOK(p, Cleared(e))
  BY <1>6, <1>7, ClearedOK DEF ResultOK
<1>14. e.full # Unreadable /\ e.code = 0 =>
          e.full \in Texts /\ (~InRecovery(p) => Clean(e.full))
  BY <1>6 DEF ResultOK, Results
<1> HIDE DEF EndsWith, GoesOn
<1> QED
  BY <1>2, <1>8, <1>9, <1>10, <1>11, <1>12, <1>13, <1>14, NothingIsClean

-----------------------------------------------------------------------------
(* What a command reads.                                                   *)

LEMMA FramesInvInit ==
    ASSUME ExecutionInit PROVE FramesInv
<1>1. AllOK(<<>>)
  BY DEF AllOK
<1>2. <<>> \in Seq(Nat) /\ program \in Config
  BY EmptySeq, NodesAssumption, NodesAreDerived, DerivedAreConfig DEF ExecutionInit
<1>3. AllOK(With(<<>>, <<>>, program, {}, TRUE))
  BY <1>1, <1>2, NothingIsClean, AllWith
<1> QED
  BY <1>3 DEF ExecutionInit, FramesInv

LEMMA FramesInvNext ==
    ASSUME FramesInv, [ExecutionNext]_executionVars PROVE FramesInv'
<1> SUFFICES AllOK(frames')
  BY DEF FramesInv, AllOK
<1>1. ASSUME NEW p \in DOMAIN frames, Skip(p) PROVE AllOK(frames')
  BY <1>1, SkipKeeps
<1>2. ASSUME NEW p \in DOMAIN frames, Repeat(p) PROVE AllOK(frames')
  BY <1>2, RepeatKeeps
<1>3. ASSUME NEW p \in DOMAIN frames, Attempt(p) PROVE AllOK(frames')
  BY <1>3, AttemptKeeps
<1>4. ASSUME NEW p \in DOMAIN frames, Unwrap(p) PROVE AllOK(frames')
  BY <1>4, UnwrapKeeps
<1>5. ASSUME NEW p \in DOMAIN frames, StartCommand(p) PROVE AllOK(frames')
  BY <1>5, StartCommandKeeps
<1>6. ASSUME NEW p \in DOMAIN frames, StartBranches(p) PROVE AllOK(frames')
  BY <1>6, StartBranchesKeeps
<1>7. ASSUME NEW p \in DOMAIN frames, StartSteps(p) PROVE AllOK(frames')
  BY <1>7, StartStepsKeeps
<1>8. ASSUME NEW p \in DOMAIN frames, CannotRun(p) PROVE AllOK(frames')
  BY <1>8, ThrowKeeps DEF CannotRun
<1>9. ASSUME NEW p \in DOMAIN frames, CommandEnds(p) PROVE AllOK(frames')
  BY <1>9, CommandEndsKeeps
<1>10. ASSUME NEW p \in DOMAIN frames, Unwrapped(p) PROVE AllOK(frames')
  BY <1>10, UnwrappedKeeps
<1>11. ASSUME NEW p \in DOMAIN frames, AttemptReturns(p) PROVE AllOK(frames')
  BY <1>11, AttemptReturnsKeeps
<1>12. ASSUME NEW p \in DOMAIN frames, RecoveryReturns(p) PROVE AllOK(frames')
  BY <1>12, RecoveryReturnsKeeps
<1>13. ASSUME NEW p \in DOMAIN frames, BranchReturns(p) PROVE AllOK(frames')
  BY <1>13, BranchReturnsKeeps
<1>14. ASSUME NEW p \in DOMAIN frames, Join(p) PROVE AllOK(frames')
  BY <1>14, JoinKeeps
<1>15. ASSUME NEW p \in DOMAIN frames, StepReturns(p) PROVE AllOK(frames')
  BY <1>15, StepReturnsKeeps
<1>16. CASE Finish
  BY <1>16, AllDropping DEF Finish, FramesInv
<1>17. CASE UNCHANGED executionVars
  BY <1>17 DEF executionVars, FramesInv
<1> QED
  BY <1>1, <1>2, <1>3, <1>4, <1>5, <1>6, <1>7, <1>8, <1>9, <1>10, <1>11, <1>12, <1>13,
     <1>14, <1>15, <1>16, <1>17 DEF ExecutionNext

\* Every call that has not returned is one the code can make: of a node of the
\* template or of what retries and repeats make of it, with its counters in
\* range; and what it holds of its parts is what they may return.
THEOREM FramesHold == ExecutionSpec => []FramesInv
<1>1. ExecutionInit => FramesInv
  BY FramesInvInit
<1>2. FramesInv /\ [ExecutionNext]_executionVars => FramesInv'
  BY FramesInvNext
<1> QED
  BY <1>1, <1>2, PTL DEF ExecutionSpec

\* Whatever the template, its depth and how its commands end: a command outside
\* a recovery reads output of commands that succeeded, except for what a join
\* shows as rejected and for what spilled from a failed last step
\* (executeTemplateConfig, executeRetriableTemplateConfig, joinParallelStdout).
THEOREM StdinAlwaysClean == ExecutionSpec => []StdinIsClean
<1>1. FramesInv => StdinIsClean
  BY DEF FramesInv, AllOK, FrameOK, StdinIsClean
<1> QED
  BY <1>1, FramesHold, PTL

-----------------------------------------------------------------------------
(* Paths of calls.                                                         *)

\* q is above p.
Over(q, p) == Len(q) < Len(p) /\ \A j \in 1..Len(q) : p[j] = q[j]

\* Where p goes on from q.
Way(q, p) == p[Len(q) + 1]

LEMMA PathTypes ==
    ASSUME NEW p \in Seq(Nat)
    PROVE  Len(p) \in Nat /\ DOMAIN p = 1..Len(p) /\ \A j \in 1..Len(p) : p[j] \in Nat
BY LenProperties, ElementOfSeq

LEMMA OverIsLess ==
    ASSUME NEW q \in Seq(Nat), NEW p \in Seq(Nat), Over(q, p)
    PROVE  /\ q # p /\ ~Over(p, q) /\ p # <<>> /\ Len(q) \in Nat /\ Len(p) \in Nat
           /\ Len(q) < Len(p) /\ Way(q, p) \in Nat
<1>1. Len(q) \in Nat /\ Len(p) \in Nat /\ Len(q) < Len(p)
  BY PathTypes DEF Over
<1>2. Len(q) + 1 \in 1..Len(p)
  BY <1>1
<1>3. Way(q, p) \in Nat
  BY <1>2, PathTypes DEF Way
<1>4. p # <<>>
  BY <1>1, EmptySeq
<1>5. q # p /\ ~Over(p, q)
  BY <1>1 DEF Over
<1> QED
  BY <1>1, <1>3, <1>4, <1>5

LEMMA OverTransitive ==
    ASSUME NEW a \in Seq(Nat), NEW b \in Seq(Nat), NEW c \in Seq(Nat), Over(a, b), Over(b, c)
    PROVE  Over(a, c) /\ Way(a, c) = Way(a, b)
BY PathTypes DEF Over, Way

LEMMA OverCompares ==
    ASSUME NEW a \in Seq(Nat), NEW b \in Seq(Nat), NEW c \in Seq(Nat), Over(a, c),
           Over(b, c) \/ b = c
    PROVE  \/ Over(a, b) /\ Way(a, b) = Way(a, c)
           \/ a = b
           \/ Over(b, a) /\ Way(b, a) = Way(b, c) /\ Over(b, c)
<1>1. Len(a) \in Nat /\ Len(b) \in Nat /\ Len(c) \in Nat
  BY PathTypes
<1>2. CASE Len(a) < Len(b)
  BY <1>1, <1>2 DEF Over, Way
<1>3. CASE Len(b) < Len(a)
  BY <1>1, <1>3 DEF Over, Way
<1>4. CASE Len(a) = Len(b)
  <2>1. \A j \in 1..Len(a) : a[j] = b[j]
    BY <1>1, <1>4 DEF Over
  <2> QED
    BY <1>4, <2>1, SeqEqual
<1> QED
  BY <1>1, <1>2, <1>3, <1>4

LEMMA OverAppend ==
    ASSUME NEW p \in Seq(Nat), NEW k \in Nat
    PROVE  /\ Append(p, k) \in Seq(Nat) /\ Append(p, k) # <<>>
           /\ Len(Append(p, k)) = Len(p) + 1
           /\ Over(p, Append(p, k)) /\ Way(p, Append(p, k)) = k
           /\ \A q \in Seq(Nat) :
                 /\ Over(q, Append(p, k)) <=> q = p \/ Over(q, p)
                 /\ Over(q, p) => Way(q, Append(p, k)) = Way(q, p)
<1> DEFINE c == Append(p, k)
<1>1. /\ c \in Seq(Nat) /\ c # <<>> /\ Len(c) = Len(p) + 1 /\ c[Len(p) + 1] = k
      /\ \A j \in 1..Len(p) : c[j] = p[j]
  BY AppendProperties
<1> HIDE DEF c
<1>2. Over(p, c) /\ Way(p, c) = k
  BY <1>1, PathTypes DEF Over, Way
<1>3. ASSUME NEW q \in Seq(Nat)
      PROVE  /\ Over(q, c) <=> q = p \/ Over(q, p)
             /\ Over(q, p) => Way(q, c) = Way(q, p)
  <2>1. CASE Over(q, c)
    <3>1. ~Over(p, q)
      <4>1. Len(q) \in Nat /\ Len(p) \in Nat /\ Len(q) < Len(p) + 1
        BY <1>1, <2>1, PathTypes DEF Over
      <4> QED
        BY <4>1 DEF Over
    <3>2. Over(q, p) \/ q = p
      BY <1>1, <1>2, <2>1, <3>1, OverCompares
    <3>3. Over(q, p) => Way(q, c) = Way(q, p)
      BY <1>1, <1>2, OverTransitive
    <3> QED
      BY <2>1, <3>2, <3>3
  <2>2. CASE ~Over(q, c)
    BY <1>1, <1>2, <2>2, OverTransitive
  <2> QED
    BY <2>1, <2>2
<1> QED
  BY <1>1, <1>2, <1>3 DEF c

LEMMA OverFront ==
    ASSUME NEW p \in Seq(Nat), p # <<>>
    PROVE  /\ Front(p) \in Seq(Nat) /\ Over(Front(p), p) /\ Len(Front(p)) = Len(p) - 1
           /\ Way(Front(p), p) \in Nat /\ p = Append(Front(p), Way(Front(p), p))
           /\ \A q \in Seq(Nat) :
                 /\ Over(q, p) => q = Front(p) \/ Over(q, Front(p))
                 /\ Over(q, p) /\ Len(p) = Len(q) + 1 => q = Front(p)
<1> DEFINE a == Front(p)
<1>1. Len(p) \in Nat \ {0}
  BY EmptySeq
<1>2. /\ a \in Seq(Nat) /\ Len(a) = Len(p) - 1
      /\ \A j \in 1..Len(a) : a[j] = p[j]
  <2> DEFINE m == Len(p) - 1
  <2>1. m \in Nat /\ \A j \in 1..m : p[j] \in Nat
    BY <1>1, PathTypes
  <2>2. a = SubSeq(p, 1, m)
    BY DEF Front
  <2> HIDE DEF a, m
  <2>3. /\ a \in Seq(Nat) /\ Len(a) = IF 1 <= m THEN m - 1 + 1 ELSE 0
        /\ \A j \in 1..(m - 1 + 1) : a[j] = p[1 + j - 1]
    BY <2>1, <2>2, SubSeqProperties
  <2>4. Len(a) = m
    BY <2>1, <2>3
  <2>5. ASSUME NEW j \in 1..Len(a) PROVE a[j] = p[j]
    <3>1. j \in 1..(m - 1 + 1) /\ 1 + j - 1 = j
      BY <2>1, <2>4
    <3> QED
      BY <2>3, <3>1
  <2> QED
    BY <2>3, <2>4, <2>5 DEF m
<1> HIDE DEF a
<1>3. Over(a, p)
  BY <1>1, <1>2 DEF Over
<1>4. Way(a, p) \in Nat
  BY <1>2, <1>3, OverIsLess
<1>5. p = Append(a, Way(a, p))
  <2> DEFINE k == Way(a, p)
             c == Append(a, k)
  <2>1. /\ c \in Seq(Nat) /\ Len(c) = Len(a) + 1 /\ c[Len(a) + 1] = k
        /\ \A j \in 1..Len(a) : c[j] = a[j]
    BY <1>2, <1>4, AppendProperties
  <2>2. k = p[Len(a) + 1]
    BY DEF Way
  <2> HIDE DEF c, k
  <2>3. Len(c) = Len(p)
    BY <1>1, <1>2, <2>1
  <2>4. ASSUME NEW j \in 1..Len(c) PROVE c[j] = p[j]
    <3>1. j \in 1..Len(a) \/ j = Len(a) + 1
      BY <1>1, <1>2, <2>1
    <3> QED
      BY <1>2, <2>1, <2>2, <3>1
  <2>5. p = c
    BY <2>1, <2>3, <2>4, SeqEqual
  <2> QED
    BY <2>5 DEF c, k
<1>6. ASSUME NEW q \in Seq(Nat), Over(q, p) PROVE q = a \/ Over(q, a)
  BY <1>2, <1>4, <1>5, <1>6, OverAppend, ZenonT(40)
<1>7. ASSUME NEW q \in Seq(Nat), Over(q, p), Len(p) = Len(q) + 1 PROVE q = a
  <2>1. ~Over(q, a)
    BY <1>1, <1>2, <1>7, PathTypes DEF Over
  <2> QED
    BY <1>6, <1>7, <2>1
<1> QED
  BY <1>2, <1>3, <1>4, <1>5, <1>6, <1>7 DEF a

LEMMA FrontAppend ==
    ASSUME NEW p \in Seq(Nat), NEW k \in Nat PROVE Front(Append(p, k)) = p
BY OverAppend, OverFront, ZenonT(40)

\* The next path from q to p is p or on the way to it.
LEMMA OverStep ==
    ASSUME NEW q \in Seq(Nat), NEW p \in Seq(Nat), Over(q, p)
    PROVE  LET c == Append(q, Way(q, p)) IN
           c \in Seq(Nat) /\ (c = p \/ Over(c, p))
<1> DEFINE k == Way(q, p)
           c == Append(q, k)
<1>1. k \in Nat /\ k = p[Len(q) + 1]
  BY OverIsLess DEF Way
<1> HIDE DEF k
<1>2. /\ c \in Seq(Nat) /\ Len(c) = Len(q) + 1 /\ c[Len(q) + 1] = k
      /\ \A j \in 1..Len(q) : c[j] = q[j]
  BY <1>1, AppendProperties
<1> HIDE DEF c
<1>3. Len(c) <= Len(p) /\ \A j \in 1..Len(c) : p[j] = c[j]
  <2>1. Len(q) \in Nat /\ Len(p) \in Nat /\ Len(q) < Len(p)
    BY OverIsLess
  <2>2. ASSUME NEW j \in 1..Len(c) PROVE p[j] = c[j]
    <3>1. j \in 1..Len(q) \/ j = Len(q) + 1
      BY <1>2, <2>1
    <3> QED
      BY <1>1, <1>2, <3>1 DEF Over
  <2> QED
    BY <1>2, <2>1, <2>2
<1>4. c = p \/ Over(c, p)
  <2>1. CASE Len(c) = Len(p)
    BY <1>2, <1>3, <2>1, SeqEqual
  <2>2. CASE Len(c) # Len(p)
    BY <1>2, <1>3, <2>2, PathTypes DEF Over
  <2> QED
    BY <2>1, <2>2
<1> QED
  BY <1>2, <1>4 DEF c, k

LEMMA OverIsStrictPrefix ==
    ASSUME NEW q \in Seq(Nat), NEW p \in Seq(Nat)
    PROVE  /\ IsPrefix(q, p) <=> q = p \/ Over(q, p)
           /\ IsStrictPrefix(q, p) <=> Over(q, p)
<1> DEFINE a == SubSeq(p, 1, Len(q))
<1>1. Len(q) \in Nat /\ Len(p) \in Nat
  BY PathTypes
<1>2. SubSeq(q, 1, Len(q)) = q
  BY SubSeqFull
<1>3. ASSUME Len(q) <= Len(p)
      PROVE  a \in Seq(Nat) /\ Len(a) = Len(q) /\ \A j \in 1..Len(q) : a[j] = p[j]
  <2>1. \A j \in 1..Len(q) : p[j] \in Nat
    BY <1>1, <1>3, PathTypes
  <2> DEFINE m == Len(q)
  <2> HIDE DEF m
  <2>2. m \in Nat /\ \A j \in 1..m : p[j] \in Nat
    BY <1>1, <2>1 DEF m
  <2>3. /\ SubSeq(p, 1, m) \in Seq(Nat)
        /\ Len(SubSeq(p, 1, m)) = IF 1 <= m THEN m - 1 + 1 ELSE 0
        /\ \A j \in 1..(m - 1 + 1) : SubSeq(p, 1, m)[j] = p[1 + j - 1]
    BY <2>2, SubSeqProperties
  <2>4. Len(SubSeq(p, 1, m)) = m
    BY <2>2, <2>3
  <2>5. ASSUME NEW j \in 1..m PROVE SubSeq(p, 1, m)[j] = p[j]
    <3>1. j \in 1..(m - 1 + 1) /\ 1 + j - 1 = j
      BY <2>2
    <3> QED
      BY <2>3, <3>1
  <2> QED
    BY <2>3, <2>4, <2>5 DEF m
<1> HIDE DEF a
<1>4. IsPrefix(q, p) <=> Len(q) <= Len(p) /\ q = a
  BY <1>2 DEF IsPrefix, a
<1>5. ASSUME Len(q) <= Len(p) PROVE q = a <=> \A j \in 1..Len(q) : p[j] = q[j]
  BY <1>3, <1>5, SeqEqual
<1>6. IsPrefix(q, p) <=> q = p \/ Over(q, p)
  <2>1. CASE Len(q) < Len(p)
    BY <1>1, <1>4, <1>5, <2>1 DEF Over
  <2>2. CASE Len(q) = Len(p)
    <3>1. IsPrefix(q, p) <=> \A j \in 1..Len(q) : p[j] = q[j]
      BY <1>1, <1>4, <1>5, <2>2
    <3>2. (\A j \in 1..Len(q) : p[j] = q[j]) <=> q = p
      BY <2>2, SeqEqual
    <3>3. ~Over(q, p)
      BY <1>1, <2>2 DEF Over
    <3> QED
      BY <3>1, <3>2, <3>3
  <2>3. CASE Len(q) > Len(p)
    BY <1>1, <1>4, <2>3 DEF Over
  <2> QED
    BY <1>1, <2>1, <2>2, <2>3
<1>7. Over(q, p) => q # p
  BY OverIsLess
<1> QED
  BY <1>6, <1>7 DEF IsStrictPrefix

LEMMA OverRoot ==
    ASSUME NEW p \in Seq(Nat), p # <<>> PROVE <<>> \in Seq(Nat) /\ Over(<<>>, p)
<1>1. Len(p) \in Nat \ {0} /\ <<>> \in Seq(Nat) /\ Len(<<>>) = 0
  BY EmptySeq
<1> QED
  BY <1>1 DEF Over

-----------------------------------------------------------------------------
(* The tree of calls.                                                      *)

\* The call f waits for its part k.
WaitsFor(f, k) ==
    \/ f.at \in {"object", "attempt"} /\ k = 1
    \/ f.at = "recover" /\ k = 0
    \/ f.at = "steps" /\ k = f.i
    \/ /\ f.at \in {"branches", "rejected"} /\ k \in 1..f.i
       /\ k \in DOMAIN f.got /\ f.got[k] = NoExecution

\* The branches no worker has taken have returned nothing.
Untaken(f) ==
    f.at \in {"branches", "rejected"} =>
        \A k \in DOMAIN f.got : f.got[k] # NoExecution => k <= f.i

\* A call above another waits for the part that leads to it, which is there
\* unless something was thrown out of it.
WayOK(fs, q, p) ==
    /\ WaitsFor(fs[q], Way(q, p))
    /\ fs[q].at # "rejected" => Append(q, Way(q, p)) \in DOMAIN fs
    /\ Len(p) = Len(q) + 1 /\ fs[q].at \in {"steps", "branches", "rejected"} =>
          fs[p].cfg.failure = fs[q].cfg.kids[Way(q, p)].failure

\* And only what was rejected is left behind by its caller.
TreeOK(fs) ==
    /\ \A p \in DOMAIN fs : Untaken(fs[p])
    /\ \A q \in DOMAIN fs, p \in DOMAIN fs : Over(q, p) => WayOK(fs, q, p)
    /\ \A p \in DOMAIN fs \ {<<>>} : fs[p].at # "rejected" => Front(p) \in DOMAIN fs

TreeInv == TreeOK(frames)

-----------------------------------------------------------------------------
(* Failures that abort.                                                    *)

\* What returns at r is a part q of a node that will let its failure abort
\* everything, or passes through objects to that part.
MarkedBy(fs, r, q) ==
    /\ q \in DOMAIN fs \ {<<>>} /\ (q = r \/ Over(q, r)) /\ Front(q) \in DOMAIN fs
    /\ \A s \in DOMAIN fs : Over(s, r) /\ Len(s) >= Len(q) => fs[s].at = "object"
    /\ LET node == fs[Front(q)] IN
       /\ node.at \in {"steps", "branches", "rejected"}
       /\ \/ fs[q].cfg.failure = "root" \/ node.cfg.failure = "root"
          \/ node.root /\ node.at = "steps" /\ Len(node.cfg.kids) = 1

ReturnsFailure(fs, r) ==
    /\ fs[r].at = "returned" /\ fs[r].result.code # 0
    /\ fs[r].result.scope = "root" \/ \E q \in DOMAIN fs : MarkedBy(fs, r, q)

\* A join at r will find the failure of the branch that leads to f.
HoldsFailure(fs, r, f) ==
    /\ fs[r].at \in {"branches", "rejected"} /\ Over(r, f)
    /\ LET k == Way(r, f)
           e == fs[r].got[k] IN
       /\ k \in DOMAIN fs[r].got /\ e # NoExecution /\ e.code # 0
       /\ Widest({e.scope, fs[r].cfg.kids[k].failure, fs[r].cfg.failure}) = "root"

\* The failure of the command f has come up to r.
DoomedAt(fs, f, r) ==
    /\ r \in DOMAIN fs /\ (r = f \/ Over(r, f))
    /\ \A s \in DOMAIN fs : Over(s, r) => fs[s].at \notin {"attempt", "recover"}
    /\ ReturnsFailure(fs, r) \/ HoldsFailure(fs, r, f)

Doomed(fs, f) == DOMAIN fs = {} \/ \E r \in DOMAIN fs : DoomedAt(fs, f, r)

DoomInv == \A f \in fatal : f \in Seq(Nat) /\ Doomed(frames, f)

\* When the tool has its result nothing is left but what was rejected.
FinalInv ==
    final # NoExecution =>
        /\ <<>> \in DOMAIN frames => frames[<<>>].at = "rejected"
        /\ final.code # 0 \/ (DOMAIN frames = {} /\ fatal = {})

-----------------------------------------------------------------------------
(* What a call does.                                                       *)

\* The call p takes or makes the calls N of parts of it.
Acted(fs, gs, p, N) ==
    /\ p \in DOMAIN fs /\ p \in DOMAIN gs /\ N \subseteq {Append(p, k) : k \in Nat}
    /\ DOMAIN gs \subseteq DOMAIN fs \cup N
    /\ \A q \in DOMAIN fs \ (N \cup {p}) : q \in DOMAIN gs /\ gs[q] = fs[q]
    /\ \A n \in N \cap DOMAIN fs : fs[n].at = "returned"
    /\ \A n \in N, x \in DOMAIN fs : ~Over(n, x)
    /\ \A n \in N \cap DOMAIN gs :
          /\ gs[n].at = "called" /\ WaitsFor(gs[p], Way(p, n))
          /\ gs[p].at \in {"steps", "branches", "rejected"} =>
                gs[n].cfg.failure = gs[p].cfg.kids[Way(p, n)].failure
    /\ Untaken(gs[p]) /\ gs[p].root = fs[p].root /\ gs[p].cfg.failure = fs[p].cfg.failure
    /\ gs[p].at = "rejected" <=> fs[p].at = "rejected"
    /\ gs[p].at = "command" => fs[p].at \in {"called", "command"}
    /\ \/ \A x \in DOMAIN fs \ N : ~Over(p, x)
       \/ /\ fs[p].at \in {"branches", "rejected"}
          /\ gs[p].at = fs[p].at /\ gs[p].cfg = fs[p].cfg
          /\ \A x \in DOMAIN fs \ N : Over(p, x) => WaitsFor(gs[p], Way(p, x))

LEMMA PartsBelow ==
    ASSUME NEW fs, NEW gs, NEW p, NEW N, DOMAIN fs \subseteq Seq(Nat), Acted(fs, gs, p, N)
    PROVE  /\ p \in Seq(Nat) /\ DOMAIN gs \subseteq Seq(Nat)
           /\ \A n \in N :
                 /\ n \in Seq(Nat) /\ n # <<>> /\ n # p /\ Over(p, n) /\ Len(n) = Len(p) + 1
                 /\ Way(p, n) \in Nat /\ n = Append(p, Way(p, n)) /\ Front(n) = p
                 /\ \A q \in Seq(Nat) :
                       /\ Over(q, n) <=> q = p \/ Over(q, p)
                       /\ Over(q, p) => Way(q, n) = Way(q, p)
                 /\ ~Over(n, p)
<1>1. p \in Seq(Nat)
  BY DEF Acted
<1>2. ASSUME NEW n \in N
      PROVE  /\ n \in Seq(Nat) /\ n # <<>> /\ n # p /\ Over(p, n) /\ Len(n) = Len(p) + 1
             /\ Way(p, n) \in Nat /\ n = Append(p, Way(p, n)) /\ Front(n) = p
             /\ \A q \in Seq(Nat) :
                   /\ Over(q, n) <=> q = p \/ Over(q, p)
                   /\ Over(q, p) => Way(q, n) = Way(q, p)
             /\ ~Over(n, p)
  <2>1. PICK k \in Nat : n = Append(p, k)
    BY DEF Acted
  <2>2. /\ n \in Seq(Nat) /\ n # <<>> /\ Over(p, n) /\ Len(n) = Len(p) + 1 /\ Way(p, n) = k
        /\ \A q \in Seq(Nat) :
              /\ Over(q, n) <=> q = p \/ Over(q, p)
              /\ Over(q, p) => Way(q, n) = Way(q, p)
    BY <1>1, <2>1, OverAppend
  <2>3. n # p /\ ~Over(n, p)
    BY <1>1, <2>2, OverIsLess
  <2>4. Front(n) = p
    BY <1>1, <2>1, FrontAppend
  <2> QED
    BY <2>1, <2>2, <2>3, <2>4
<1>3. DOMAIN gs \subseteq Seq(Nat)
  BY <1>2 DEF Acted
<1> QED
  BY <1>1, <1>2, <1>3

LEMMA TreeActed ==
    ASSUME NEW fs, NEW gs, NEW p, NEW N, DOMAIN fs \subseteq Seq(Nat), TreeOK(fs),
           Acted(fs, gs, p, N)
    PROVE  TreeOK(gs)
<1>1. /\ p \in Seq(Nat) /\ DOMAIN gs \subseteq Seq(Nat) /\ p \in DOMAIN fs /\ p \in DOMAIN gs
      /\ p \notin N /\ \A n \in N : ~Over(n, p)
  <2>1. p \in DOMAIN fs /\ p \in DOMAIN gs
    BY DEF Acted
  <2>2. p \in Seq(Nat) /\ DOMAIN gs \subseteq Seq(Nat)
    BY PartsBelow
  <2>3. \A n \in N : n # p /\ ~Over(n, p)
    BY PartsBelow
  <2> QED
    BY <2>1, <2>2, <2>3
<1>2. \A x \in DOMAIN gs : x = p \/ x \in N \/ (x \in DOMAIN fs \ N /\ gs[x] = fs[x])
  BY DEF Acted
<1>3. \A x \in DOMAIN gs : Untaken(gs[x])
  <2>1. \A x \in DOMAIN gs : x \in N => gs[x].at = "called"
    BY DEF Acted
  <2> QED
    BY <1>2, <2>1 DEF Acted, TreeOK, Untaken
<1>4. ASSUME NEW q \in DOMAIN gs, NEW x \in DOMAIN gs, Over(q, x)
      PROVE  WayOK(gs, q, x)
  <2>1. CASE x \in N /\ q = p
    <3>1. x = Append(p, Way(p, x)) /\ Len(x) = Len(p) + 1
      BY <2>1, PartsBelow
    <3>2. /\ WaitsFor(gs[p], Way(p, x))
          /\ gs[p].at \in {"steps", "branches", "rejected"} =>
                gs[x].cfg.failure = gs[p].cfg.kids[Way(p, x)].failure
      BY <2>1 DEF Acted
    <3> QED
      BY <2>1, <3>1, <3>2 DEF WayOK
  <2>2. CASE x \in N /\ q # p
    <3>1. Over(q, p) /\ Way(q, x) = Way(q, p) /\ Len(x) = Len(p) + 1
      <4>1. q \in Seq(Nat) /\ x \in N
        BY <1>1, <2>2
      <4>2. /\ Len(x) = Len(p) + 1
            /\ Over(q, x) <=> q = p \/ Over(q, p)
            /\ Over(q, p) => Way(q, x) = Way(q, p)
        BY <4>1, PartsBelow
      <4> QED
        BY <1>4, <2>2, <4>2
    <3>2. q \notin N /\ q \in DOMAIN fs /\ gs[q] = fs[q]
      BY <1>1, <1>2, <2>2, <3>1
    <3>3. WayOK(fs, q, p)
      BY <1>1, <3>1, <3>2 DEF TreeOK
    <3> DEFINE c == Append(q, Way(q, p))
    <3>4. c = p \/ Over(c, p)
      BY <1>1, <3>1, OverStep
    <3>5. c \notin N
      BY <1>1, <3>4
    <3>6. Len(x) # Len(q) + 1
      BY <1>1, <3>1, OverIsLess
    <3> HIDE DEF c
    <3>7. fs[q].at # "rejected" => c \in DOMAIN gs
      BY <1>1, <3>3, <3>5 DEF WayOK, Acted, c
    <3> QED
      BY <3>1, <3>2, <3>3, <3>6, <3>7 DEF WayOK, c
  <2>3. CASE x = p
    <3>1. q \notin N /\ q # p /\ q \in DOMAIN fs /\ gs[q] = fs[q]
      BY <1>1, <1>2, <1>4, <2>3, OverIsLess
    <3>2. WayOK(fs, q, p) /\ Over(q, p)
      BY <1>1, <1>4, <2>3, <3>1 DEF TreeOK
    <3> DEFINE c == Append(q, Way(q, p))
    <3>3. c = p \/ Over(c, p)
      BY <1>1, <3>2, OverStep
    <3>4. c \notin N
      BY <1>1, <3>3
    <3> HIDE DEF c
    <3>5. fs[q].at # "rejected" => c \in DOMAIN gs
      BY <1>1, <3>2, <3>4 DEF WayOK, Acted, c
    <3>6. gs[p].cfg.failure = fs[p].cfg.failure
      BY DEF Acted
    <3> QED
      BY <2>3, <3>1, <3>2, <3>5, <3>6 DEF WayOK, c
  <2>4. CASE x \notin N /\ x # p
    <3>1. x \in DOMAIN fs /\ gs[x] = fs[x]
      BY <1>2, <2>4
    <3>2. q \notin N
      BY <1>4, <3>1 DEF Acted
    <3>3. q \in DOMAIN fs /\ WayOK(fs, q, x)
      BY <1>1, <1>2, <1>4, <3>1, <3>2 DEF TreeOK
    <3> DEFINE c == Append(q, Way(q, x))
    <3>4. c = x \/ Over(c, x)
      BY <1>4, <3>1, <3>3, OverStep
    <3>5. c \notin N
      BY <2>4, <3>1, <3>4 DEF Acted
    <3> HIDE DEF c
    <3>6. fs[q].at # "rejected" => c \in DOMAIN gs
      BY <1>1, <3>3, <3>5 DEF WayOK, Acted, c
    <3>7. CASE q # p
      <4>1. gs[q] = fs[q]
        BY <1>2, <3>2, <3>7
      <4> QED
        BY <3>1, <3>3, <3>6, <4>1 DEF WayOK, c
    <3>8. CASE q = p
      <4>1. /\ fs[p].at \in {"branches", "rejected"} /\ gs[p].at = fs[p].at
            /\ gs[p].cfg = fs[p].cfg /\ WaitsFor(gs[p], Way(p, x))
        BY <1>4, <2>4, <3>1, <3>8 DEF Acted
      <4> QED
        BY <3>1, <3>3, <3>6, <3>8, <4>1 DEF WayOK, c
    <3> QED
      BY <3>7, <3>8
  <2> QED
    BY <2>1, <2>2, <2>3, <2>4
<1>5. ASSUME NEW x \in DOMAIN gs \ {<<>>}, gs[x].at # "rejected" PROVE Front(x) \in DOMAIN gs
  <2>1. CASE x \in N
    BY <1>1, <2>1, PartsBelow
  <2>2. CASE x \notin N
    <3>1. x \in DOMAIN fs /\ fs[x].at # "rejected"
      BY <1>1, <1>2, <1>5, <2>2 DEF Acted
    <3>2. Front(x) \in DOMAIN fs /\ Over(Front(x), x)
      BY <3>1, OverFront DEF TreeOK
    <3>3. Front(x) \notin N
      BY <3>1, <3>2 DEF Acted
    <3> QED
      BY <1>1, <3>2, <3>3 DEF Acted
  <2> QED
    BY <2>1, <2>2
<1> QED
  BY <1>3, <1>4, <1>5 DEF TreeOK

\* Nothing is below a call that waits for nothing, and nothing but one part
\* below a call that waits for that part, when it has returned.
LEMMA NothingBelow ==
    ASSUME NEW fs, TreeOK(fs), NEW p \in DOMAIN fs,
           fs[p].at \in {"called", "command", "returned"}
    PROVE  \A x \in DOMAIN fs : ~Over(p, x)
BY DEF TreeOK, WayOK, WaitsFor

LEMMA OnlyPartBelow ==
    ASSUME NEW fs, DOMAIN fs \subseteq Seq(Nat), TreeOK(fs), NEW p \in DOMAIN fs, NEW k \in Nat,
           Append(p, k) \in DOMAIN fs, fs[Append(p, k)].at = "returned",
           NEW x \in DOMAIN fs, Over(p, x), WaitsFor(fs[p], Way(p, x)) => Way(p, x) = k
    PROVE  x = Append(p, k)
<1> DEFINE c == Append(p, k)
<1>1. Way(p, x) = k
  BY DEF TreeOK, WayOK
<1>2. c = x \/ Over(c, x)
  BY <1>1, OverStep
<1>3. ~Over(c, x)
  BY NothingBelow
<1> QED
  BY <1>2, <1>3

\* A call that has no parts running but C, which have returned.
LEMMA ActedAlone ==
    ASSUME NEW fs, NEW gs, NEW p \in DOMAIN fs, NEW C, NEW A, DOMAIN fs \subseteq Seq(Nat),
           C \cup A \subseteq {Append(p, k) : k \in Nat},
           \A x \in DOMAIN fs : Over(p, x) => x \in C,
           \A n \in C \cap DOMAIN fs : fs[n].at = "returned",
           DOMAIN gs = (DOMAIN fs \ C) \cup A,
           \A q \in DOMAIN fs \ (C \cup A \cup {p}) : gs[q] = fs[q],
           \A n \in A :
              /\ gs[n].at = "called" /\ WaitsFor(gs[p], Way(p, n))
              /\ gs[p].at \in {"steps", "branches", "rejected"} =>
                    gs[n].cfg.failure = gs[p].cfg.kids[Way(p, n)].failure,
           Untaken(gs[p]), gs[p].root = fs[p].root,
           gs[p].cfg.failure = fs[p].cfg.failure,
           gs[p].at # "rejected", fs[p].at # "rejected",
           gs[p].at = "command" => fs[p].at \in {"called", "command"}
    PROVE  Acted(fs, gs, p, C \cup A)
<1> DEFINE N == C \cup A
<1>1. \A n \in N : n \in Seq(Nat) /\ Over(p, n) /\ Len(n) = Len(p) + 1 /\ n # p
  <2> SUFFICES ASSUME NEW n \in N
               PROVE  n \in Seq(Nat) /\ Over(p, n) /\ Len(n) = Len(p) + 1 /\ n # p
    OBVIOUS
  <2>1. PICK k \in Nat : n = Append(p, k)
    OBVIOUS
  <2>2. n \in Seq(Nat) /\ Over(p, n) /\ Len(n) = Len(p) + 1
    BY <2>1, OverAppend
  <2> QED
    BY <2>2, OverIsLess
<1>2. ASSUME NEW n \in N, NEW x \in DOMAIN fs PROVE ~Over(n, x)
  <2>1. ASSUME Over(n, x) PROVE FALSE
    <3>1. Over(p, x)
      BY <1>1, <2>1, OverTransitive
    <3>2. x \in C
      BY <3>1
    <3>3. Len(x) = Len(n)
      BY <1>1, <3>2
    <3>4. n \in Seq(Nat) /\ x \in Seq(Nat)
      BY <1>1
    <3>5. Len(n) \in Nat /\ Len(n) < Len(x)
      BY <2>1, <3>4, OverIsLess
    <3> QED
      BY <3>3, <3>5
  <2> QED
    BY <2>1
<1>3. \A n \in N \cap DOMAIN fs : n \in C
  BY <1>1
<1>4. p \in DOMAIN gs
  BY <1>1
<1>5. \A n \in N \cap DOMAIN gs : n \in A
  BY <1>3
<1> HIDE DEF N
<1> QED
  BY <1>2, <1>3, <1>4, <1>5 DEF Acted, N

LEMMA CalledFields ==
    ASSUME NEW cfg, NEW stdin, NEW root
    PROVE  LET f == Called(cfg, stdin, root) IN f.at = "called" /\ f.cfg = cfg
BY DEF Called

LEMMA MovedFields ==
    ASSUME NEW f \in Frames, NEW at, NEW i
    PROVE  LET g == [f EXCEPT !.at = at, !.i = i] IN
           g.at = at /\ g.i = i /\ g.cfg = f.cfg /\ g.root = f.root
BY DEF Frames

LEMMA ReturnedFields ==
    ASSUME NEW f \in Frames, NEW e
    PROVE  LET g == [f EXCEPT !.at = "returned", !.result = e] IN
           g.at = "returned" /\ g.result = e /\ g.cfg = f.cfg /\ g.root = f.root
BY DEF Frames

\* What the calls hold, and how they hang together.
CallsInv == FramesInv /\ TreeInv

LEMMA CallTypes ==
    ASSUME CallsInv, NEW p \in DOMAIN frames
    PROVE  /\ TreeOK(frames) /\ DOMAIN frames \subseteq Seq(Nat) /\ p \in Seq(Nat)
           /\ FrameOK(p, frames[p]) /\ frames[p] \in Frames /\ frames[p].cfg \in Config
BY FrameTypes DEF CallsInv, FramesInv, TreeInv, AllOK, FrameOK

LEMMA ReturningShows ==
    ASSUME CallsInv, NEW p \in DOMAIN frames, NEW e, NEW on, p \in DOMAIN on, on[p] = frames[p]
    PROVE  /\ Returning(on, p, e)[p].at = "returned" /\ Returning(on, p, e)[p].result = e
<1> DEFINE g == [frames[p] EXCEPT !.at = "returned", !.result = e]
<1>1. Returning(on, p, e)[p] = g
  BY DEF Returning
<1>2. g.at = "returned" /\ g.result = e
  BY CallTypes, ReturnedFields
<1> HIDE DEF g
<1> QED
  BY <1>1, <1>2

\* A call returns, having taken C.
LEMMA ReturningActs ==
    ASSUME CallsInv, NEW p \in DOMAIN frames, NEW e, NEW C, NEW on,
           C \subseteq {Append(p, k) : k \in Nat},
           \A x \in DOMAIN frames : Over(p, x) => x \in C,
           \A n \in C \cap DOMAIN frames : frames[n].at = "returned",
           frames[p].at # "rejected", DOMAIN on = DOMAIN frames \ C,
           \A q \in DOMAIN on : on[q] = frames[q]
    PROVE  Acted(frames, Returning(on, p, e), p, C)
<1> DEFINE gs == Returning(on, p, e)
           g == [frames[p] EXCEPT !.at = "returned", !.result = e]
<1>1. p \notin C
  <2>1. ASSUME NEW k \in Nat PROVE Append(p, k) # p
    BY CallTypes, RecoveryPaths
  <2> QED
    BY <2>1
<1>3. /\ DOMAIN gs = DOMAIN frames \ C /\ gs[p] = g
      /\ \A q \in DOMAIN frames \ (C \cup {p}) : gs[q] = frames[q]
  BY <1>1 DEF Returning
<1>4. /\ g.at = "returned" /\ g.result = e /\ g.cfg = frames[p].cfg
      /\ g.root = frames[p].root
  BY CallTypes, ReturnedFields
<1> HIDE DEF gs, g
<1>5. Untaken(gs[p])
  BY <1>3, <1>4 DEF Untaken
<1>6. Acted(frames, gs, p, C \cup {})
  BY <1>3, <1>4, <1>5, CallTypes, ActedAlone
<1>7. C \cup {} = C
  OBVIOUS
<1> QED
  BY <1>6, <1>7 DEF gs

\* A call that has taken C calls its part k.
LEMMA CallingActs ==
    ASSUME CallsInv, NEW p \in DOMAIN frames, NEW g, NEW C, NEW on, NEW k \in Nat,
           NEW cfg, NEW stdin, NEW root,
           C \subseteq {Append(p, l) : l \in Nat},
           \A x \in DOMAIN frames : Over(p, x) => x \in C,
           \A n \in C \cap DOMAIN frames : frames[n].at = "returned",
           frames[p].at # "rejected",
           DOMAIN on = DOMAIN frames \ C, on[p] = g,
           \A q \in DOMAIN on \ {p} : on[q] = frames[q],
           g.at \in {"attempt", "recover", "object", "steps"}, WaitsFor(g, k),
           g.root = frames[p].root, g.cfg = frames[p].cfg,
           g.at = "steps" => cfg.failure = g.cfg.kids[k].failure
    PROVE  Acted(frames, With(on, Append(p, k), cfg, stdin, root), p, C \cup {Append(p, k)})
<1> DEFINE c == Append(p, k)
           gs == With(on, c, cfg, stdin, root)
<1>1. \A l \in Nat : Append(p, l) # p
  BY CallTypes, RecoveryPaths
<1>2. Way(p, c) = k
  BY CallTypes, OverAppend
<1>3. c \in {Append(p, l) : l \in Nat}
  OBVIOUS
<1> HIDE DEF c
<1>4. /\ DOMAIN gs = (DOMAIN frames \ C) \cup {c} /\ gs[p] = g
      /\ gs[c] = Called(cfg, stdin, root)
      /\ \A q \in DOMAIN frames \ (C \cup {c} \cup {p}) : gs[q] = frames[q]
  BY <1>1, <1>3 DEF With
<1>5. gs[c].at = "called" /\ gs[c].cfg = cfg
  BY <1>4, CalledFields
<1> HIDE DEF gs
<1>6. Untaken(gs[p])
  BY <1>4 DEF Untaken
<1>7. \A n \in {c} :
         /\ gs[n].at = "called" /\ WaitsFor(gs[p], Way(p, n))
         /\ gs[p].at \in {"steps", "branches", "rejected"} =>
               gs[n].cfg.failure = gs[p].cfg.kids[Way(p, n)].failure
  BY <1>2, <1>4, <1>5
<1>8. C \cup {c} \subseteq {Append(p, l) : l \in Nat}
  BY <1>3
<1>9. Acted(frames, gs, p, C \cup {c})
  BY <1>4, <1>6, <1>7, <1>8, CallTypes, ActedAlone
<1> QED
  BY <1>9 DEF gs, c

\* A call goes on without taking or making a call.
LEMMA ChangingActs ==
    ASSUME CallsInv, NEW p \in DOMAIN frames, NEW gs,
           frames[p].at \in {"called", "command"}, DOMAIN gs = DOMAIN frames,
           \A q \in DOMAIN frames \ {p} : gs[q] = frames[q],
           gs[p].at \in {"called", "command"}, gs[p].root = frames[p].root,
           gs[p].cfg.failure = frames[p].cfg.failure
    PROVE  Acted(frames, gs, p, {})
<1>1. \A x \in DOMAIN frames : ~Over(p, x)
  BY CallTypes, NothingBelow
<1>2. Untaken(gs[p])
  BY DEF Untaken
<1>3. Acted(frames, gs, p, {} \cup {})
  BY <1>1, <1>2, CallTypes, ActedAlone
<1> QED
  BY <1>3

-----------------------------------------------------------------------------
(* What each action does to the tree.                                      *)

LEMMA SkipActs ==
    ASSUME CallsInv, NEW p \in DOMAIN frames, Skip(p) PROVE Acted(frames, frames', p, {})
<1> DEFINE in == frames[p].stdin
           e == Execution(0, in, in, in # {}, FALSE, "default")
<1>1. frames' = Returning(frames, p, e) /\ frames[p].at = "called"
  BY DEF Skip, Go, Begins, Waits
<1>2. \A x \in DOMAIN frames : ~Over(p, x)
  BY <1>1, CallTypes, NothingBelow
<1> HIDE DEF e
<1>3. {} \subseteq {Append(p, k) : k \in Nat}
  OBVIOUS
<1> QED
  BY <1>1, <1>2, <1>3, ReturningActs

LEMMA RepeatActs ==
    ASSUME CallsInv, NEW p \in DOMAIN frames, Repeat(p) PROVE Acted(frames, frames', p, {})
<1> DEFINE f == frames[p]
           cfg == Repeated(f.cfg)
           g == [f EXCEPT !.cfg = cfg]
<1>1. /\ frames' = [frames EXCEPT ![p] = g] /\ f.at = "called"
      /\ f.cfg.repeat # Unset
  BY DEF Repeat, Go, Runs, Begins, Waits
<1>2. cfg.failure = f.cfg.failure
  BY <1>1, CallTypes, RepeatedIsConfig
<1> HIDE DEF cfg
<1>3. g.at = "called" /\ g.root = f.root /\ g.cfg = cfg
  BY <1>1, CallTypes DEF Frames
<1>4. /\ DOMAIN frames' = DOMAIN frames /\ frames'[p] = g
      /\ \A q \in DOMAIN frames \ {p} : frames'[q] = frames[q]
  BY <1>1
<1> HIDE DEF g
<1>5. frames[p].at \in {"called", "command"} /\ frames'[p].at \in {"called", "command"}
  BY <1>1, <1>3, <1>4
<1>6. frames'[p].root = frames[p].root /\ frames'[p].cfg.failure = frames[p].cfg.failure
  BY <1>2, <1>3, <1>4
<1> HIDE DEF f
<1> QED
  BY <1>4, <1>5, <1>6, ChangingActs

LEMMA AttemptActs ==
    ASSUME CallsInv, NEW p \in DOMAIN frames, Attempt(p)
    PROVE  Acted(frames, frames', p, {Append(p, 1)})
<1> DEFINE f == frames[p]
           g == [f EXCEPT !.at = "attempt", !.i = 1]
           on == [frames EXCEPT ![p].at = "attempt", ![p].i = 1]
<1>1. /\ frames' = With(on, Append(p, 1), Attempted(f.cfg), f.stdin, f.root)
      /\ f.at = "called"
  BY DEF Attempt, Go, RunsOnce, Runs, Begins, Waits
<1>2. \A x \in DOMAIN frames : ~Over(p, x)
  BY <1>1, CallTypes, NothingBelow
<1>3. g.at = "attempt" /\ g.cfg = f.cfg /\ g.root = f.root
  BY CallTypes, MovedFields
<1>4. /\ DOMAIN on = DOMAIN frames \ {} /\ on[p] = g
      /\ \A q \in DOMAIN on \ {p} : on[q] = frames[q]
  OBVIOUS
<1> HIDE DEF on, g
<1>5. WaitsFor(g, 1)
  BY <1>3 DEF WaitsFor
<1>6. Acted(frames, frames', p, {} \cup {Append(p, 1)})
  BY <1>1, <1>2, <1>3, <1>4, <1>5, CallingActs
<1> QED
  BY <1>6

LEMMA UnwrapActs ==
    ASSUME CallsInv, NEW p \in DOMAIN frames, Unwrap(p)
    PROVE  Acted(frames, frames', p, {Append(p, 1)})
<1> DEFINE f == frames[p]
           g == [f EXCEPT !.at = "object"]
           on == [frames EXCEPT ![p].at = "object"]
<1>1. /\ frames' = With(on, Append(p, 1), f.cfg.kids[1], f.stdin, FALSE)
      /\ f.at = "called"
  BY DEF Unwrap, Go, RunsPlain, RunsOnce, Runs, Begins, Waits
<1>2. \A x \in DOMAIN frames : ~Over(p, x)
  BY <1>1, CallTypes, NothingBelow
<1>3. g.at = "object" /\ g.cfg = f.cfg /\ g.root = f.root
  BY CallTypes DEF Frames
<1>4. /\ DOMAIN on = DOMAIN frames \ {} /\ on[p] = g
      /\ \A q \in DOMAIN on \ {p} : on[q] = frames[q]
  OBVIOUS
<1> HIDE DEF on, g
<1>5. WaitsFor(g, 1)
  BY <1>3 DEF WaitsFor
<1>6. Acted(frames, frames', p, {} \cup {Append(p, 1)})
  BY <1>1, <1>2, <1>3, <1>4, <1>5, CallingActs
<1> QED
  BY <1>6

LEMMA StartCommandActs ==
    ASSUME CallsInv, NEW p \in DOMAIN frames, StartCommand(p)
    PROVE  Acted(frames, frames', p, {})
<1> DEFINE f == frames[p]
           g == [f EXCEPT !.at = "command", !.i = 1]
<1>1. /\ frames' = [frames EXCEPT ![p].at = "command", ![p].i = 1] /\ f.at = "called"
  BY DEF StartCommand, Go, RunsPlain, RunsOnce, Runs, Begins, Waits
<1>2. g.at = "command" /\ g.cfg = f.cfg /\ g.root = f.root
  BY CallTypes, MovedFields
<1>3. /\ DOMAIN frames' = DOMAIN frames /\ frames'[p] = g
      /\ \A q \in DOMAIN frames \ {p} : frames'[q] = frames[q]
  BY <1>1
<1> HIDE DEF g
<1>4. frames[p].at \in {"called", "command"} /\ frames'[p].at \in {"called", "command"}
  BY <1>1, <1>2, <1>3
<1>5. frames'[p].root = frames[p].root /\ frames'[p].cfg.failure = frames[p].cfg.failure
  BY <1>2, <1>3
<1> HIDE DEF f
<1> QED
  BY <1>3, <1>4, <1>5, ChangingActs

LEMMA StartStepsActs ==
    ASSUME CallsInv, NEW p \in DOMAIN frames, StartSteps(p)
    PROVE  Acted(frames, frames', p, {Append(p, 1)})
<1> DEFINE f == frames[p]
           g == [f EXCEPT !.at = "steps", !.i = 1]
           on == [frames EXCEPT ![p].at = "steps", ![p].i = 1]
<1>1. /\ frames' = With(on, Append(p, 1), f.cfg.kids[1], f.stdin, FALSE)
      /\ f.at = "called"
  BY DEF StartSteps, Go, RunsPlain, RunsOnce, Runs, Begins, Waits
<1>2. \A x \in DOMAIN frames : ~Over(p, x)
  BY <1>1, CallTypes, NothingBelow
<1>3. g.at = "steps" /\ g.i = 1 /\ g.cfg = f.cfg /\ g.root = f.root
  BY CallTypes, MovedFields
<1>4. /\ DOMAIN on = DOMAIN frames \ {} /\ on[p] = g
      /\ \A q \in DOMAIN on \ {p} : on[q] = frames[q]
  OBVIOUS
<1> HIDE DEF on, g
<1>5. WaitsFor(g, 1)
  BY <1>3 DEF WaitsFor
<1>6. Acted(frames, frames', p, {} \cup {Append(p, 1)})
  BY <1>1, <1>2, <1>3, <1>4, <1>5, CallingActs
<1> QED
  BY <1>6

LEMMA StartBranchesActs ==
    ASSUME CallsInv, NEW p \in DOMAIN frames, StartBranches(p)
    PROVE  \E N : Acted(frames, frames', p, N) /\ N \cap DOMAIN frames = {}
<1> DEFINE f == frames[p]
           n == Workers(f.cfg)
           branches == {Append(p, k) : k \in 1..n}
           none == [k \in DOMAIN f.cfg.kids |-> NoExecution]
           g == [f EXCEPT !.at = "branches", !.i = n, !.got = none]
<1>1. /\ frames' = [q \in DOMAIN frames \cup branches |->
                      IF q \in branches THEN Called(f.cfg.kids[Last(q)], f.stdin, FALSE)
                      ELSE IF q = p THEN g ELSE frames[q]]
      /\ f.at = "called"
  BY DEF StartBranches, Go, RunsPlain, RunsOnce, Runs, Begins, Waits
<1>2. p \in Seq(Nat) /\ f \in Frames /\ f.cfg \in Config
  BY CallTypes
<1>3. n \in Nat /\ 1..n \subseteq DOMAIN f.cfg.kids
  <2>1. Len(f.cfg.kids) \in Nat /\ DOMAIN f.cfg.kids = 1..Len(f.cfg.kids)
    BY <1>2, KidsAreConfig
  <2>2. f.cfg.concurrency \in {Unset} \cup (Nat \ {0})
    BY <1>2 DEF Config, NodeOf
  <2> HIDE DEF f
  <2> QED
    BY <2>1, <2>2 DEF Workers
<1>4. /\ g.at = "branches" /\ g.i = n /\ g.got = none /\ g.cfg = f.cfg /\ g.root = f.root
  BY <1>2 DEF Frames
<1>5. DOMAIN none = DOMAIN f.cfg.kids /\ \A k \in DOMAIN none : none[k] = NoExecution
  OBVIOUS
<1>6. \A x \in DOMAIN frames : ~Over(p, x)
  BY <1>1, CallTypes, NothingBelow
<1> HIDE DEF g, none, n
<1>7. ASSUME NEW q \in branches
      PROVE  /\ frames'[q].at = "called" /\ Way(p, q) \in 1..n /\ Over(p, q)
             /\ q \in {Append(p, k) : k \in Nat}
             /\ frames'[q].cfg.failure = f.cfg.kids[Way(p, q)].failure
  <2>1. PICK k \in 1..n : q = Append(p, k)
    OBVIOUS
  <2>2. k \in Nat
    BY <1>3
  <2>3. Way(p, q) = k /\ Over(p, q)
    BY <1>2, <2>1, <2>2, OverAppend
  <2>4. Last(q) = k
    BY <1>2, <2>1, <2>2, RecoveryPaths
  <2>5. frames'[q] = Called(f.cfg.kids[k], f.stdin, FALSE)
    BY <1>1, <2>4
  <2>6. frames'[q].at = "called" /\ frames'[q].cfg = f.cfg.kids[k]
    BY <2>5 DEF Called
  <2> HIDE DEF branches
  <2> QED
    BY <2>1, <2>2, <2>3, <2>6
<1>8. branches \cap DOMAIN frames = {} /\ p \notin branches
  BY <1>2, <1>6, <1>7, OverIsLess
<1> HIDE DEF branches
<1>9. frames'[p] = g
  BY <1>1, <1>8
<1>10. \A q \in branches : WaitsFor(frames'[p], Way(p, q))
  BY <1>3, <1>4, <1>5, <1>7, <1>9 DEF WaitsFor
<1>11. Untaken(frames'[p])
  BY <1>4, <1>5, <1>9 DEF Untaken
<1>12. /\ DOMAIN frames' = (DOMAIN frames \ {}) \cup branches
       /\ \A q \in DOMAIN frames \ ({} \cup branches \cup {p}) : frames'[q] = frames[q]
       /\ {} \cup branches \subseteq {Append(p, k) : k \in Nat}
  BY <1>1, <1>7
<1>13. Acted(frames, frames', p, {} \cup branches)
  BY <1>1, <1>4, <1>6, <1>7, <1>9, <1>10, <1>11, <1>12, CallTypes, ActedAlone
<1> QED
  BY <1>8, <1>13

LEMMA CommandEndsActs ==
    ASSUME CallsInv, NEW p \in DOMAIN frames, CommandEnds(p)
    PROVE  /\ Acted(frames, frames', p, {}) /\ frames[p].at = "command" /\ final' = final
           /\ \/ fatal' = fatal
              \/ /\ fatal' = fatal \cup {p} /\ Aborts(p)
                 /\ frames'[p].at = "returned" /\ frames'[p].result.code # 0
<1> DEFINE f == frames[p]
           g == [f EXCEPT !.i = f.i + 1]
<1>1. f.at = "command"
  BY DEF CommandEnds, Waits
<1>2. PICK raw \in CommandResults(p) :
         \/ frames' = [frames EXCEPT ![p].i = f.i + 1] /\ UNCHANGED <<program, final, fatal>>
         \/ \E e \in Judged(f.cfg, raw) :
               /\ frames' = Returning(frames, p, e)
               /\ fatal' = IF e.code # 0 /\ Aborts(p) THEN fatal \cup {p} ELSE fatal
               /\ UNCHANGED <<program, final>>
  BY DEF CommandEnds, Go
<1>3. CASE frames' = [frames EXCEPT ![p].i = f.i + 1] /\ UNCHANGED <<program, final, fatal>>
  <2>1. g.at = "command" /\ g.cfg = f.cfg /\ g.root = f.root
    BY <1>1, CallTypes DEF Frames
  <2>2. /\ DOMAIN frames' = DOMAIN frames /\ frames'[p] = g
        /\ \A q \in DOMAIN frames \ {p} : frames'[q] = frames[q]
    BY <1>3
  <2> HIDE DEF g
  <2>3. frames[p].at \in {"called", "command"} /\ frames'[p].at \in {"called", "command"}
    BY <1>1, <2>1, <2>2
  <2>4. frames'[p].root = frames[p].root /\ frames'[p].cfg.failure = frames[p].cfg.failure
    BY <2>1, <2>2
  <2> HIDE DEF f
  <2>5. Acted(frames, frames', p, {})
    BY <2>2, <2>3, <2>4, ChangingActs
  <2> QED
    BY <1>1, <1>3, <2>5 DEF f
<1>4. ASSUME NEW e \in Judged(f.cfg, raw), frames' = Returning(frames, p, e),
             fatal' = (IF e.code # 0 /\ Aborts(p) THEN fatal \cup {p} ELSE fatal),
             UNCHANGED <<program, final>>
      PROVE  /\ Acted(frames, frames', p, {}) /\ final' = final
             /\ \/ fatal' = fatal
                \/ /\ fatal' = fatal \cup {p} /\ Aborts(p)
                   /\ frames'[p].at = "returned" /\ frames'[p].result.code # 0
  <2>1. \A x \in DOMAIN frames : ~Over(p, x)
    BY <1>1, CallTypes, NothingBelow
  <2>2. {} \subseteq {Append(p, k) : k \in Nat}
    OBVIOUS
  <2>3. Acted(frames, Returning(frames, p, e), p, {})
    BY <1>1, <2>1, <2>2, ReturningActs
  <2>4. Returning(frames, p, e)[p].at = "returned" /\ Returning(frames, p, e)[p].result = e
    BY ReturningShows
  <2> QED
    BY <1>4, <2>3, <2>4
<1> QED
  BY <1>1, <1>2, <1>3, <1>4

\* What is known when the only part that p waits for has returned.
LEMMA PartBack ==
    ASSUME NEW p, NEW k, Back(p, k)
    PROVE  /\ Append(p, k) \in DOMAIN frames /\ frames[Append(p, k)].at = "returned"
           /\ Returned(p, k) = frames[Append(p, k)].result
BY DEF Back, Waits, Returned

LEMMA PartTaken ==
    ASSUME CallsInv, NEW p \in DOMAIN frames, NEW k \in Nat, Back(p, k),
           \A l : WaitsFor(frames[p], l) => l = k
    PROVE  \A x \in DOMAIN frames : Over(p, x) => x \in {Append(p, k)}
<1>1. \A x \in DOMAIN frames : Over(p, x) => x = Append(p, k)
  BY PartBack, CallTypes, OnlyPartBelow
<1> QED
  BY <1>1

LEMMA TakenCalls ==
    ASSUME CallsInv, NEW p \in DOMAIN frames, NEW k \in Nat
    PROVE  /\ {Append(p, k)} \subseteq {Append(p, l) : l \in Nat}
           /\ p # Append(p, k) /\ Over(p, Append(p, k))
           /\ DOMAIN Taken(p, k) = DOMAIN frames \ {Append(p, k)}
           /\ \A q \in DOMAIN frames \ {Append(p, k)} : Taken(p, k)[q] = frames[q]
<1>1. {Append(p, k)} \subseteq {Append(p, l) : l \in Nat}
  OBVIOUS
<1>2. p # Append(p, k) /\ Over(p, Append(p, k))
  BY CallTypes, RecoveryPaths, OverAppend
<1>3. /\ DOMAIN Taken(p, k) = DOMAIN frames \ {Append(p, k)}
      /\ \A q \in DOMAIN frames \ {Append(p, k)} : Taken(p, k)[q] = frames[q]
  BY DEF Taken, Dropping
<1> QED
  BY <1>1, <1>2, <1>3

LEMMA UnwrappedActs ==
    ASSUME CallsInv, NEW p \in DOMAIN frames, Unwrapped(p)
    PROVE  /\ Acted(frames, frames', p, {Append(p, 1)}) /\ frames[p].at = "object"
           /\ Append(p, 1) \in DOMAIN frames /\ frames'[p].at = "returned"
           /\ frames'[p].result = frames[Append(p, 1)].result
<1> DEFINE c == Append(p, 1)
           e == Returned(p, 1)
           on == Taken(p, 1)
<1>1. frames' = Returning(on, p, e) /\ frames[p].at = "object" /\ Back(p, 1)
  BY DEF Unwrapped, Go, Waits
<1>2. \A l : WaitsFor(frames[p], l) => l = 1
  BY <1>1 DEF WaitsFor
<1>3. /\ c \in DOMAIN frames /\ frames[c].at = "returned" /\ p # c /\ e = frames[c].result
      /\ \A x \in DOMAIN frames : Over(p, x) => x \in {c}
      /\ {c} \subseteq {Append(p, l) : l \in Nat}
      /\ DOMAIN on = DOMAIN frames \ {c}
      /\ \A q \in DOMAIN on : on[q] = frames[q]
  <2>1. c \in DOMAIN frames /\ frames[c].at = "returned" /\ e = frames[c].result
    BY <1>1, PartBack
  <2>2. \A x \in DOMAIN frames : Over(p, x) => x \in {c}
    BY <1>1, <1>2, PartTaken
  <2>3. {c} \subseteq {Append(p, l) : l \in Nat} /\ p # c
    BY <1>1, TakenCalls
  <2>4. DOMAIN on = DOMAIN frames \ {c} /\ \A q \in DOMAIN frames \ {c} : on[q] = frames[q]
    BY <1>1, TakenCalls
  <2> HIDE DEF c, e, on
  <2> QED
    BY <2>1, <2>2, <2>3, <2>4
<1> HIDE DEF c, e, on
<1>4. Acted(frames, Returning(on, p, e), p, {c})
  BY <1>1, <1>3, ReturningActs
<1>5. Returning(on, p, e)[p].at = "returned" /\ Returning(on, p, e)[p].result = e
  BY <1>3, ReturningShows
<1> QED
  BY <1>1, <1>3, <1>4, <1>5 DEF c

LEMMA AttemptReturnsActs ==
    ASSUME CallsInv, NEW p \in DOMAIN frames, AttemptReturns(p)
    PROVE  frames[p].at = "attempt" /\ \E N : Acted(frames, frames', p, N)
<1> DEFINE f == frames[p]
           c == Append(p, 1)
           e == Returned(p, 1)
           on == Taken(p, 1)
           again == [on EXCEPT ![p].i = on[p].i + 1]
           recovers == [on EXCEPT ![p].at = "recover"]
           g == [f EXCEPT !.i = f.i + 1]
           h == [f EXCEPT !.at = "recover"]
<1>1. f.at = "attempt" /\ Back(p, 1)
  BY DEF AttemptReturns, Waits
<1>2. \/ frames' = Returning(on, p, e)
      \/ frames' = With(again, Append(p, 1), Attempted(f.cfg), f.stdin, f.root)
      \/ frames' = With(recovers, Append(p, 0), Recovery(f.cfg), e.out, FALSE)
  BY DEF AttemptReturns, Go
<1>3. \A l : WaitsFor(f, l) => l = 1
  BY <1>1 DEF WaitsFor
<1>4. /\ c \in DOMAIN frames /\ frames[c].at = "returned" /\ p # c
      /\ \A x \in DOMAIN frames : Over(p, x) => x \in {c}
      /\ {c} \subseteq {Append(p, l) : l \in Nat}
      /\ DOMAIN on = DOMAIN frames \ {c}
      /\ \A q \in DOMAIN on : on[q] = frames[q]
  <2>1. c \in DOMAIN frames /\ frames[c].at = "returned" /\ e = frames[c].result
    BY <1>1, PartBack
  <2>2. \A x \in DOMAIN frames : Over(p, x) => x \in {c}
    BY <1>1, <1>3, PartTaken
  <2>3. {c} \subseteq {Append(p, l) : l \in Nat} /\ p # c
    BY <1>1, TakenCalls
  <2>4. DOMAIN on = DOMAIN frames \ {c} /\ \A q \in DOMAIN frames \ {c} : on[q] = frames[q]
    BY <1>1, TakenCalls
  <2> HIDE DEF c, e, on
  <2> QED
    BY <2>1, <2>2, <2>3, <2>4
<1>5. /\ g.at = "attempt" /\ g.cfg = f.cfg /\ g.root = f.root
      /\ h.at = "recover" /\ h.cfg = f.cfg /\ h.root = f.root
  BY <1>1, CallTypes DEF Frames
<1>6. WaitsFor(g, 1) /\ WaitsFor(h, 0)
  BY <1>5 DEF WaitsFor
<1> HIDE DEF c, e, on
<1>7. /\ DOMAIN again = DOMAIN frames \ {c} /\ again[p] = g
      /\ \A q \in DOMAIN again \ {p} : again[q] = frames[q]
      /\ DOMAIN recovers = DOMAIN frames \ {c} /\ recovers[p] = h
      /\ \A q \in DOMAIN recovers \ {p} : recovers[q] = frames[q]
  BY <1>4
<1> HIDE DEF again, recovers, g, h
<1>8. CASE frames' = Returning(on, p, e)
  <2>1. Acted(frames, Returning(on, p, e), p, {c})
    BY <1>1, <1>4, ReturningActs
  <2> QED
    BY <1>1, <1>8, <2>1
<1>9. CASE frames' = With(again, Append(p, 1), Attempted(f.cfg), f.stdin, f.root)
  <2>1. Acted(frames, With(again, Append(p, 1), Attempted(f.cfg), f.stdin, f.root), p,
              {c} \cup {Append(p, 1)})
    BY <1>1, <1>4, <1>5, <1>6, <1>7, CallingActs
  <2> QED
    BY <1>1, <1>9, <2>1
<1>10. CASE frames' = With(recovers, Append(p, 0), Recovery(f.cfg), e.out, FALSE)
  <2>1. Acted(frames, With(recovers, Append(p, 0), Recovery(f.cfg), e.out, FALSE), p,
              {c} \cup {Append(p, 0)})
    BY <1>1, <1>4, <1>5, <1>6, <1>7, CallingActs
  <2> QED
    BY <1>1, <1>10, <2>1
<1> QED
  BY <1>2, <1>8, <1>9, <1>10

LEMMA RecoveryReturnsActs ==
    ASSUME CallsInv, NEW p \in DOMAIN frames, RecoveryReturns(p)
    PROVE  frames[p].at = "recover" /\ \E N : Acted(frames, frames', p, N)
<1> DEFINE f == frames[p]
           c == Append(p, 0)
           e == Returned(p, 0)
           on == Taken(p, 0)
           again == [on EXCEPT ![p].at = "attempt", ![p].i = on[p].i + 1]
           w == [e EXCEPT !.scope = Widest({e.scope, f.cfg.failure})]
           g == [f EXCEPT !.at = "attempt", !.i = f.i + 1]
<1>1. f.at = "recover" /\ Back(p, 0)
  BY DEF RecoveryReturns, Waits
<1>2. \/ frames' = With(again, Append(p, 1), Attempted(f.cfg), f.stdin, f.root)
      \/ frames' = Returning(on, p, w)
  <2>1. [on EXCEPT ![p].at = "attempt", ![p].i = @ + 1] = again
    OBVIOUS
  <2> QED
    BY <2>1 DEF RecoveryReturns, Go
<1>3. \A l : WaitsFor(f, l) => l = 0
  BY <1>1 DEF WaitsFor
<1>4. /\ c \in DOMAIN frames /\ frames[c].at = "returned" /\ p # c
      /\ \A x \in DOMAIN frames : Over(p, x) => x \in {c}
      /\ {c} \subseteq {Append(p, l) : l \in Nat}
      /\ DOMAIN on = DOMAIN frames \ {c}
      /\ \A q \in DOMAIN on : on[q] = frames[q]
  <2>1. c \in DOMAIN frames /\ frames[c].at = "returned" /\ e = frames[c].result
    BY <1>1, PartBack
  <2>2. \A x \in DOMAIN frames : Over(p, x) => x \in {c}
    BY <1>1, <1>3, PartTaken
  <2>3. {c} \subseteq {Append(p, l) : l \in Nat} /\ p # c
    BY <1>1, TakenCalls
  <2>4. DOMAIN on = DOMAIN frames \ {c} /\ \A q \in DOMAIN frames \ {c} : on[q] = frames[q]
    BY <1>1, TakenCalls
  <2> HIDE DEF c, e, on
  <2> QED
    BY <2>1, <2>2, <2>3, <2>4
<1>5. g.at = "attempt" /\ g.cfg = f.cfg /\ g.root = f.root
  BY CallTypes, MovedFields
<1>6. WaitsFor(g, 1)
  BY <1>5 DEF WaitsFor
<1> HIDE DEF c, e, on, w
<1>7. /\ DOMAIN again = DOMAIN frames \ {c} /\ again[p] = g
      /\ \A q \in DOMAIN again \ {p} : again[q] = frames[q]
  BY <1>4
<1> HIDE DEF again, g
<1>8. CASE frames' = Returning(on, p, w)
  <2>1. Acted(frames, Returning(on, p, w), p, {c})
    BY <1>1, <1>4, ReturningActs
  <2> QED
    BY <1>1, <1>8, <2>1
<1>9. CASE frames' = With(again, Append(p, 1), Attempted(f.cfg), f.stdin, f.root)
  <2>1. Acted(frames, With(again, Append(p, 1), Attempted(f.cfg), f.stdin, f.root), p,
              {c} \cup {Append(p, 1)})
    BY <1>1, <1>4, <1>5, <1>6, <1>7, CallingActs
  <2> QED
    BY <1>1, <1>9, <2>1
<1> QED
  BY <1>2, <1>8, <1>9

LEMMA StepReturnsActs ==
    ASSUME CallsInv, NEW p \in DOMAIN frames, StepReturns(p)
    PROVE  LET f == frames[p]
               c == Append(p, f.i)
               e == frames[c].result IN
           /\ f.at = "steps" /\ c \in DOMAIN frames
           /\ \A x \in DOMAIN frames : Over(p, x) => x = c
           /\ \E N : Acted(frames, frames', p, N)
           /\ e.code # 0 /\ StepScope(f, e) = "root" =>
                 /\ frames'[p].at = "returned" /\ frames'[p].result.code # 0
                 /\ frames'[p].result.scope = "root"
<1> DEFINE f == frames[p]
           n == f.i + 1
           c == Append(p, f.i)
           last == f.i = Len(f.cfg.kids)
           e == Returned(p, f.i)
           on == Taken(p, f.i)
           scope == StepScope(f, e)
           counted == [on EXCEPT ![p].i = on[p].i + 1]
           g == [f EXCEPT !.i = n]
           EndsWith(result) == frames' = Returning(on, p, result)
           GoesOn == \E stdin : frames' = With(counted, Append(p, n), f.cfg.kids[n], stdin, FALSE)
<1>1. f.at = "steps" /\ Back(p, f.i) /\ f.i \in Nat
  BY CallTypes, FrameTypes DEF StepReturns, Waits
<1>2. \/ EndsWith([Incomplete(e) EXCEPT !.scope = "root"])
      \/ e.code = 0 /\ \E result : EndsWith(result)
      \/ EndsWith([e EXCEPT !.scope = scope])
      \/ scope \notin {"root", "branch"} /\ \E result : EndsWith(result)
      \/ (e.code = 0 \/ scope \notin {"root", "branch"}) /\ GoesOn
  BY DEF StepReturns, Go
<1>3. \A l : WaitsFor(f, l) => l = f.i
  BY <1>1 DEF WaitsFor
<1>4. /\ c \in DOMAIN frames /\ frames[c].at = "returned" /\ p # c /\ e = frames[c].result
      /\ \A x \in DOMAIN frames : Over(p, x) => x \in {c}
      /\ {c} \subseteq {Append(p, l) : l \in Nat}
      /\ DOMAIN on = DOMAIN frames \ {c}
      /\ \A q \in DOMAIN on : on[q] = frames[q]
  <2>1. c \in DOMAIN frames /\ frames[c].at = "returned" /\ e = frames[c].result
    BY <1>1, PartBack
  <2>2. \A x \in DOMAIN frames : Over(p, x) => x \in {c}
    BY <1>1, <1>3, PartTaken
  <2>3. {c} \subseteq {Append(p, l) : l \in Nat} /\ p # c
    BY <1>1, TakenCalls
  <2>4. DOMAIN on = DOMAIN frames \ {c} /\ \A q \in DOMAIN frames \ {c} : on[q] = frames[q]
    BY <1>1, TakenCalls
  <2> HIDE DEF c, e, on
  <2> QED
    BY <2>1, <2>2, <2>3, <2>4
<1>5. ResultOK(c, e)
  BY <1>4, CallTypes DEF FrameOK
<1>6. g.at = "steps" /\ g.i = n /\ g.cfg = f.cfg /\ g.root = f.root
  BY <1>1, CallTypes DEF Frames
<1>7. WaitsFor(g, n) /\ n \in Nat
  BY <1>1, <1>6 DEF WaitsFor
<1> HIDE DEF c, e, on, scope
<1>8. /\ DOMAIN counted = DOMAIN frames \ {c} /\ counted[p] = g
      /\ \A q \in DOMAIN counted \ {p} : counted[q] = frames[q]
  BY <1>4
<1> HIDE DEF counted, g, n
<1>9. ASSUME NEW result, EndsWith(result)
      PROVE  /\ \E N : Acted(frames, frames', p, N)
             /\ frames'[p].at = "returned" /\ frames'[p].result = result
  <2>1. Acted(frames, Returning(on, p, result), p, {c})
    BY <1>1, <1>4, ReturningActs
  <2>2. /\ Returning(on, p, result)[p].at = "returned"
        /\ Returning(on, p, result)[p].result = result
    BY <1>4, ReturningShows
  <2> QED
    BY <1>9, <2>1, <2>2
<1>10. ASSUME GoesOn PROVE \E N : Acted(frames, frames', p, N)
  <2>1. PICK stdin : frames' = With(counted, Append(p, n), f.cfg.kids[n], stdin, FALSE)
    BY <1>10
  <2>2. Acted(frames, With(counted, Append(p, n), f.cfg.kids[n], stdin, FALSE), p,
              {c} \cup {Append(p, n)})
    BY <1>1, <1>4, <1>6, <1>7, <1>8, CallingActs
  <2> QED
    BY <2>1, <2>2
<1>11. /\ [Incomplete(e) EXCEPT !.scope = "root"].code # 0
       /\ [Incomplete(e) EXCEPT !.scope = "root"].scope = "root"
  <2>1. Incomplete(e) \in Results /\ Incomplete(e).code = 74
    BY <1>5, IncompleteOK
  <2> QED
    BY <2>1 DEF Results
<1>12. /\ [e EXCEPT !.scope = scope].code = e.code /\ [e EXCEPT !.scope = scope].scope = scope
  BY <1>5 DEF ResultOK, Results
<1>13. \E N : Acted(frames, frames', p, N)
  BY <1>2, <1>9, <1>10
<1>14. ASSUME e.code # 0, scope = "root"
       PROVE  /\ frames'[p].at = "returned" /\ frames'[p].result.code # 0
              /\ frames'[p].result.scope = "root"
  <2>1. \/ EndsWith([Incomplete(e) EXCEPT !.scope = "root"])
        \/ EndsWith([e EXCEPT !.scope = scope])
    BY <1>2, <1>14
  <2> HIDE DEF EndsWith
  <2> QED
    BY <1>9, <1>11, <1>12, <1>14, <2>1
<1> QED
  BY <1>1, <1>4, <1>13, <1>14 DEF c, scope

LEMMA JoinActs ==
    ASSUME CallsInv, NEW p \in DOMAIN frames, Join(p)
    PROVE  LET f == frames[p] IN
           /\ Acted(frames, frames', p, {}) /\ f.at = "branches"
           /\ DOMAIN f.got = DOMAIN f.cfg.kids
           /\ \A k \in DOMAIN f.got : f.got[k] # NoExecution /\ ResultOK(p, f.got[k])
           /\ frames'[p].at = "returned"
           /\ frames'[p].result = JoinedExecution(p, f.cfg, f.got)
<1> DEFINE f == frames[p]
           e == JoinedExecution(p, f.cfg, f.got)
<1>1. /\ frames' = Returning(frames, p, e) /\ f.at = "branches"
      /\ \A k \in DOMAIN f.got : f.got[k] # NoExecution
  BY DEF Join, Go, Waits
<1>2. DOMAIN f.got = DOMAIN f.cfg.kids /\ \A k \in DOMAIN f.got : ResultOK(p, f.got[k])
  BY <1>1, CallTypes DEF FrameOK
<1>3. \A x \in DOMAIN frames : ~Over(p, x)
  <2>1. \A k : ~WaitsFor(f, k)
    BY <1>1 DEF WaitsFor
  <2> QED
    BY <2>1, CallTypes DEF TreeOK, WayOK
<1> HIDE DEF e
<1>4. {} \subseteq {Append(p, k) : k \in Nat}
  OBVIOUS
<1>5. Acted(frames, Returning(frames, p, e), p, {})
  BY <1>1, <1>3, <1>4, ReturningActs
<1>6. Returning(frames, p, e)[p].at = "returned" /\ Returning(frames, p, e)[p].result = e
  BY ReturningShows
<1> QED
  BY <1>1, <1>2, <1>5, <1>6 DEF e

LEMMA BranchReturnsActs ==
    ASSUME CallsInv, NEW p \in DOMAIN frames, BranchReturns(p)
    PROVE  \E k \in DOMAIN frames[p].cfg.kids : \E N :
              LET f == frames[p]
                  g == frames'[p]
                  c == Append(p, k) IN
              /\ Acted(frames, frames', p, N) /\ f.at \in {"branches", "rejected"}
              /\ g.at = f.at /\ g.cfg = f.cfg /\ DOMAIN g.got = DOMAIN f.got
              /\ c \in DOMAIN frames /\ N \cap DOMAIN frames \subseteq {c}
              /\ k \in DOMAIN f.got /\ f.got[k] = NoExecution /\ g.got[k] = frames[c].result
              /\ \A l \in DOMAIN f.got \ {k} : g.got[l] = f.got[l]
<1> DEFINE f == frames[p]
<1>1. PICK k \in DOMAIN f.cfg.kids :
         /\ Back(p, k)
         /\ frames' = NextBranch([Taken(p, k) EXCEPT ![p].got[k] = Returned(p, k)], p,
                                 Returned(p, k))
  BY DEF BranchReturns, Go
<1>2. /\ f.at \in {"branches", "rejected"} /\ p \in Seq(Nat) /\ FrameOK(p, f) /\ f \in Frames
      /\ f.cfg \in Config /\ f.i \in Nat
  BY CallTypes, FrameTypes DEF BranchReturns, Waits
<1>3. /\ Len(f.cfg.kids) \in Nat /\ DOMAIN f.cfg.kids = 1..Len(f.cfg.kids)
      /\ DOMAIN f.got = DOMAIN f.cfg.kids /\ k \in Nat
  <2>1. Len(f.cfg.kids) \in Nat /\ DOMAIN f.cfg.kids = 1..Len(f.cfg.kids)
    BY <1>2, KidsAreConfig
  <2>2. DOMAIN f.got = DOMAIN f.cfg.kids
    BY <1>2 DEF FrameOK
  <2> QED
    BY <2>1, <2>2
<1> DEFINE c == Append(p, k)
           e == Returned(p, k)
           on == Taken(p, k)
           h == [f EXCEPT !.got[k] = e]
           taken == [on EXCEPT ![p].got[k] = e]
<1>4. c \in DOMAIN frames /\ frames[c].at = "returned" /\ e = frames[c].result
  BY <1>1, PartBack
<1>5. {c} \subseteq {Append(p, l) : l \in Nat} /\ p # c /\ Over(p, c)
  BY <1>3, TakenCalls
<1>6. DOMAIN on = DOMAIN frames \ {c} /\ \A q \in DOMAIN frames \ {c} : on[q] = frames[q]
  BY <1>3, TakenCalls
<1>7. Way(p, c) = k
  BY <1>2, <1>3, OverAppend
<1>8. k \in 1..f.i /\ k \in DOMAIN f.got /\ f.got[k] = NoExecution
  <2>1. WaitsFor(f, k)
    BY <1>4, <1>5, <1>7, CallTypes DEF TreeOK, WayOK
  <2> QED
    BY <1>2, <2>1 DEF WaitsFor
<1> HIDE DEF c, e, on
<1>9. /\ h.at = f.at /\ h.i = f.i /\ h.cfg = f.cfg /\ h.root = f.root
      /\ DOMAIN h.got = DOMAIN f.got /\ h.got[k] = e
      /\ \A l \in DOMAIN f.got \ {k} : h.got[l] = f.got[l]
  BY <1>2, <1>8 DEF Frames
<1>10. /\ DOMAIN taken = DOMAIN frames \ {c} /\ taken[p] = h
       /\ \A q \in DOMAIN frames \ {c, p} : taken[q] = frames[q]
  BY <1>5, <1>6
<1>11. frames' = NextBranch(taken, p, e)
  BY <1>1 DEF taken, on, e
<1> HIDE DEF h, taken
<1>12. \A x \in DOMAIN frames : ~Over(c, x)
  BY <1>4, CallTypes, NothingBelow
<1>13. \A l \in DOMAIN f.got : f.got[l] # NoExecution => l <= f.i
  BY <1>2, CallTypes DEF TreeOK, Untaken
<1>14. ASSUME NEW x \in DOMAIN frames, Over(p, x)
       PROVE  /\ Way(p, x) \in 1..f.i /\ Way(p, x) \in DOMAIN f.got
              /\ f.got[Way(p, x)] = NoExecution
              /\ x # c => Way(p, x) # k
  <2>1. WaitsFor(f, Way(p, x))
    BY <1>14, CallTypes DEF TreeOK, WayOK
  <2>2. Way(p, x) = k => x = c
    BY <1>2, <1>12, <1>14, CallTypes, OverStep DEF c
  <2> QED
    BY <1>2, <2>1, <2>2 DEF WaitsFor
<1> DEFINE Result(g, N) ==
             /\ Acted(frames, frames', p, N) /\ frames'[p] = g
             /\ g.at = f.at /\ g.cfg = f.cfg /\ g.got = h.got
             /\ N \cap DOMAIN frames \subseteq {c}
<1>15. ASSUME f.i >= Len(f.cfg.kids) PROVE Result(h, {c})
  <2>1. frames' = taken
    BY <1>9, <1>10, <1>11, <1>15 DEF NextBranch
  <2>2. Untaken(h)
    BY <1>8, <1>9, <1>13 DEF Untaken
  <2>3. \A x \in DOMAIN frames \ {c} : Over(p, x) => WaitsFor(h, Way(p, x))
    BY <1>2, <1>9, <1>14 DEF WaitsFor
  <2> HIDE DEF f
  <2>4. Acted(frames, frames', p, {c})
    BY <1>2, <1>4, <1>5, <1>9, <1>10, <1>12, <2>1, <2>2, <2>3 DEF Acted, f
  <2> QED
    BY <1>9, <1>10, <2>1, <2>4
<1>16. ASSUME ~(f.i >= Len(f.cfg.kids)) PROVE \E g, N : Result(g, N)
  <2> DEFINE n == f.i + 1
             d == Append(p, n)
             g == [h EXCEPT !.i = n]
             counted == [taken EXCEPT ![p].i = n]
             N == {c, d}
  <2>1. n \in DOMAIN f.cfg.kids /\ n \in Nat /\ n > f.i
    BY <1>2, <1>3, <1>16
  <2>2. frames' = With(counted, d, f.cfg.kids[n], f.stdin, FALSE)
    <3>1. h.stdin = f.stdin
      BY <1>2 DEF h, Frames
    <3> QED
      BY <1>9, <1>10, <1>11, <1>16, <3>1 DEF NextBranch
  <2>3. g.at = f.at /\ g.i = n /\ g.cfg = f.cfg /\ g.root = f.root /\ g.got = h.got
    <3>1. h \in [cfg : {h.cfg}, stdin : {h.stdin}, root : {h.root}, at : {h.at}, i : {h.i},
                 result : {h.result}, got : {h.got}]
      BY <1>2 DEF h, Frames
    <3> HIDE DEF f
    <3> QED
      BY <1>9, <3>1
  <2>4. d \in Seq(Nat) /\ Over(p, d) /\ Way(p, d) = n /\ p # d
    BY <1>2, <2>1, OverAppend, RecoveryPaths
  <2>5. d \notin DOMAIN frames
    <3>1. ASSUME d \in DOMAIN frames PROVE FALSE
      <4> HIDE DEF d, n
      <4>1. n \in 1..f.i
        BY <1>14, <2>4, <3>1
      <4> QED
        BY <1>2, <2>1, <4>1
    <3> QED
      BY <3>1
  <2>6. \A x \in DOMAIN frames : ~Over(d, x)
    <3>1. ASSUME NEW x \in DOMAIN frames, Over(d, x) PROVE FALSE
      <4>1. x \in Seq(Nat)
        BY CallTypes
      <4>2. Over(p, x) /\ Way(p, x) = n
        BY <1>2, <2>4, <3>1, <4>1, OverTransitive
      <4> QED
        BY <1>2, <1>14, <2>1, <4>2
    <3> QED
      BY <3>1
  <2>7. d \in {Append(p, l) : l \in Nat}
    BY <2>1
  <2> HIDE DEF d, g
  <2>8. /\ DOMAIN counted = DOMAIN frames \ {c} /\ counted[p] = g
        /\ \A q \in DOMAIN frames \ {c, p} : counted[q] = frames[q]
    BY <1>5, <1>10 DEF g
  <2> HIDE DEF counted
  <2>9. /\ DOMAIN frames' = (DOMAIN frames \ {c}) \cup {d} /\ frames'[p] = g
        /\ \A q \in DOMAIN frames \ {c, d, p} : frames'[q] = frames[q]
        /\ frames'[d] = Called(f.cfg.kids[n], f.stdin, FALSE)
    BY <1>5, <2>2, <2>4, <2>8 DEF With
  <2>10. frames'[d].at = "called" /\ frames'[d].cfg = f.cfg.kids[n]
    BY <2>9 DEF Called
  <2>11. Untaken(g)
    <3>1. \A l \in DOMAIN f.got : h.got[l] # NoExecution => l <= n
      BY <1>2, <1>3, <1>8, <1>9, <1>13, <2>1
    <3> QED
      BY <1>9, <2>3, <3>1 DEF Untaken
  <2>12. WaitsFor(g, n)
    <3>1. n \in DOMAIN f.got /\ f.got[n] = NoExecution /\ n # k /\ n \in 1..n
      BY <1>2, <1>3, <1>8, <1>13, <2>1
    <3> QED
      BY <1>2, <1>9, <2>3, <3>1 DEF WaitsFor
  <2>13. \A x \in DOMAIN frames \ {c} : Over(p, x) => WaitsFor(g, Way(p, x))
    <3> SUFFICES ASSUME NEW x \in DOMAIN frames \ {c}, Over(p, x)
                 PROVE  WaitsFor(g, Way(p, x))
      OBVIOUS
    <3>1. /\ Way(p, x) \in 1..f.i /\ Way(p, x) \in DOMAIN f.got \ {k}
          /\ f.got[Way(p, x)] = NoExecution
      BY <1>14
    <3>2. Way(p, x) \in 1..n
      BY <1>2, <3>1
    <3> QED
      BY <1>2, <1>9, <2>3, <3>1, <3>2 DEF WaitsFor
  <2> HIDE DEF f
  <2>14. \A m \in N \cap DOMAIN frames' :
            /\ frames'[m].at = "called" /\ WaitsFor(frames'[p], Way(p, m))
            /\ frames'[m].cfg.failure = frames'[p].cfg.kids[Way(p, m)].failure
    <3>1. ASSUME NEW m \in N \cap DOMAIN frames' PROVE m = d
      BY <1>4, <2>5, <2>9
    <3> QED
      BY <2>3, <2>4, <2>9, <2>10, <2>12, <3>1
  <2>15. /\ N \cap DOMAIN frames \subseteq {c}
         /\ \A m \in N, x \in DOMAIN frames : ~Over(m, x)
         /\ N \subseteq {Append(p, l) : l \in Nat} /\ p \in DOMAIN frames'
         /\ DOMAIN frames' \subseteq DOMAIN frames \cup N
         /\ \A q \in DOMAIN frames \ (N \cup {p}) : q \in DOMAIN frames' /\ frames'[q] = frames[q]
    BY <1>5, <1>12, <2>4, <2>5, <2>6, <2>7, <2>9
  <2> HIDE DEF N, n
  <2>16. /\ Untaken(frames'[p]) /\ frames'[p].root = f.root /\ frames'[p].cfg = f.cfg
         /\ frames'[p].at = f.at /\ f.at \in {"branches", "rejected"}
         /\ \A x \in DOMAIN frames \ N : Over(p, x) => WaitsFor(frames'[p], Way(p, x))
    BY <1>2, <2>3, <2>9, <2>11, <2>13 DEF N
  <2>17. Acted(frames, frames', p, N)
    BY <1>4, <2>14, <2>15, <2>16 DEF Acted, f
  <2> QED
    BY <2>3, <2>9, <2>15, <2>17
<1>17. PICK g, N : Result(g, N)
  BY <1>15, <1>16
<1> QED
  BY <1>2, <1>4, <1>8, <1>9, <1>17 DEF c

\* What a rejection leaves: nothing of the call and of those that wait for it
\* but the parallel nodes, which are rejected.
LEMMA ThrowActs ==
    ASSUME CallsInv, NEW p \in DOMAIN frames, Throw(p)
    PROVE  /\ \A x \in DOMAIN frames' :
                 /\ x \in DOMAIN frames /\ x # p
                 /\ Over(x, p) => frames[x].at \in {"branches", "rejected"}
                                  /\ frames'[x].at = "rejected"
                 /\ ~Over(x, p) => frames'[x] = frames[x]
                 /\ frames'[x].cfg = frames[x].cfg /\ frames'[x].root = frames[x].root
                 /\ frames'[x].i = frames[x].i /\ frames'[x].got = frames[x].got
           /\ \A x \in DOMAIN frames \ {p} :
                 (Over(x, p) => frames[x].at \in {"branches", "rejected"})
                    => x \in DOMAIN frames'
<1>1. \A x \in DOMAIN frames : x \in Above(p) <=> Over(x, p)
  BY CallTypes, OverIsStrictPrefix DEF Above
<1>2. DOMAIN frames' = {x \in DOMAIN frames \ {p} :
                           x \in Above(p) => frames[x].at \in {"branches", "rejected"}}
  BY DEF Throw
<1>3. \A x \in DOMAIN frames' :
         frames'[x] = IF x \in Above(p) THEN [frames[x] EXCEPT !.at = "rejected"]
                      ELSE frames[x]
  BY <1>2 DEF Throw
<1>4. ASSUME NEW x \in DOMAIN frames
      PROVE  LET g == [frames[x] EXCEPT !.at = "rejected"] IN
             /\ g.at = "rejected" /\ g.cfg = frames[x].cfg /\ g.root = frames[x].root
             /\ g.i = frames[x].i /\ g.got = frames[x].got
  BY CallTypes DEF Frames
<1>5. ASSUME NEW x \in DOMAIN frames'
      PROVE  /\ x \in DOMAIN frames /\ x # p
             /\ Over(x, p) => frames[x].at \in {"branches", "rejected"}
                              /\ frames'[x].at = "rejected"
             /\ ~Over(x, p) => frames'[x] = frames[x]
             /\ frames'[x].cfg = frames[x].cfg /\ frames'[x].root = frames[x].root
             /\ frames'[x].i = frames[x].i /\ frames'[x].got = frames[x].got
  <2>1. x \in DOMAIN frames /\ x # p
    BY <1>2
  <2>2. CASE Over(x, p)
    <3>1. x \in Above(p)
      BY <1>1, <2>1, <2>2
    <3>2. frames'[x] = [frames[x] EXCEPT !.at = "rejected"]
      BY <1>3, <3>1
    <3> QED
      BY <1>2, <1>4, <2>1, <2>2, <3>1, <3>2
  <2>3. CASE ~Over(x, p)
    BY <1>1, <1>3, <2>1, <2>3
  <2> QED
    BY <2>1, <2>2, <2>3
<1> QED
  BY <1>1, <1>2, <1>5

LEMMA ThrowTree ==
    ASSUME CallsInv, NEW p \in DOMAIN frames, frames[p].at = "called", Throw(p)
    PROVE  TreeOK(frames')
<1>1. \A x \in DOMAIN frames' :
         /\ x \in DOMAIN frames /\ x # p /\ x \in Seq(Nat)
         /\ Over(x, p) => frames[x].at \in {"branches", "rejected"}
                          /\ frames'[x].at = "rejected"
         /\ ~Over(x, p) => frames'[x] = frames[x]
         /\ frames'[x].cfg = frames[x].cfg /\ frames'[x].root = frames[x].root
         /\ frames'[x].i = frames[x].i /\ frames'[x].got = frames[x].got
  BY CallTypes, ThrowActs
<1>2. \A x \in DOMAIN frames \ {p} :
         (Over(x, p) => frames[x].at \in {"branches", "rejected"}) => x \in DOMAIN frames'
  BY ThrowActs
<1>3. TreeOK(frames) /\ p \in Seq(Nat) /\ DOMAIN frames \subseteq Seq(Nat)
  BY CallTypes
<1>4. \A x \in DOMAIN frames' : Untaken(frames'[x])
  BY <1>1, <1>3 DEF TreeOK, Untaken
<1>5. ASSUME NEW q \in DOMAIN frames', NEW x \in DOMAIN frames', Over(q, x)
      PROVE  WayOK(frames', q, x)
  <2>1. WayOK(frames, q, x)
    BY <1>1, <1>3, <1>5 DEF TreeOK
  <2>2. WaitsFor(frames'[q], Way(q, x))
    BY <1>1, <2>1 DEF WayOK, WaitsFor
  <2> DEFINE c == Append(q, Way(q, x))
  <2>3. ASSUME frames'[q].at # "rejected" PROVE c \in DOMAIN frames'
    <3>1. ~Over(q, p) /\ frames'[q] = frames[q]
      BY <1>1, <2>3
    <3>2. c \in DOMAIN frames
      BY <2>1, <2>3, <3>1 DEF WayOK
    <3>3. Over(q, c) /\ c \in Seq(Nat)
      <4>1. Way(q, x) \in Nat
        BY <1>1, <1>5, OverIsLess
      <4> QED
        BY <1>1, <4>1, OverAppend
    <3> HIDE DEF c
    <3>4. c # p /\ ~Over(c, p)
      BY <1>1, <1>3, <3>1, <3>3, OverTransitive
    <3> QED
      BY <1>2, <3>2, <3>4
  <2>4. Len(x) = Len(q) + 1 /\ frames'[q].at \in {"steps", "branches", "rejected"} =>
           frames'[x].cfg.failure = frames'[q].cfg.kids[Way(q, x)].failure
    BY <1>1, <2>1 DEF WayOK
  <2> QED
    BY <2>2, <2>3, <2>4 DEF WayOK
<1>6. ASSUME NEW x \in DOMAIN frames' \ {<<>>}, frames'[x].at # "rejected"
      PROVE  Front(x) \in DOMAIN frames'
  <2> DEFINE q == Front(x)
  <2>1. /\ x \in DOMAIN frames /\ x # p /\ x \in Seq(Nat) /\ ~Over(x, p)
        /\ frames'[x] = frames[x]
    BY <1>1, <1>6
  <2>2. q \in DOMAIN frames /\ Over(q, x) /\ x = Append(q, Way(q, x)) /\ q \in Seq(Nat)
    BY <1>3, <1>6, <2>1, OverFront DEF TreeOK
  <2> HIDE DEF q
  <2>3. q # p
    BY <1>3, <2>1, <2>2, NothingBelow
  <2>4. ASSUME Over(q, p) PROVE frames[q].at \in {"branches", "rejected"}
    <3>1. WaitsFor(frames[q], Way(q, p)) /\ WaitsFor(frames[q], Way(q, x))
      BY <1>3, <2>1, <2>2, <2>4 DEF TreeOK, WayOK
    <3>2. Way(q, p) # Way(q, x)
      BY <1>3, <2>1, <2>2, <2>4, OverStep
    <3> QED
      BY <3>1, <3>2 DEF WaitsFor
  <2> QED
    BY <1>2, <2>2, <2>3, <2>4 DEF q
<1> QED
  BY <1>4, <1>5, <1>6 DEF TreeOK

LEMMA TreeInit ==
    ASSUME ExecutionInit PROVE TreeOK(frames)
<1>1. DOMAIN frames = {<<>>} /\ frames[<<>>].at = "called"
  BY DEF ExecutionInit, With, Called
<1>2. ~Over(<<>>, <<>>)
  BY EmptySeq DEF Over
<1> QED
  BY <1>1, <1>2 DEF TreeOK, Untaken

\* Every action is one of these.
LEMMA EveryAction ==
    ASSUME CallsInv, ExecutionNext
    PROVE  \/ \E p \in DOMAIN frames : \E N : Acted(frames, frames', p, N)
           \/ \E p \in DOMAIN frames : frames[p].at = "called" /\ Throw(p)
           \/ Finish
<1>1. ASSUME NEW p \in DOMAIN frames, CannotRun(p)
      PROVE  frames[p].at = "called" /\ Throw(p)
  BY <1>1 DEF CannotRun, RunsPlain, RunsOnce, Runs, Begins, Waits
<1> QED
  BY <1>1, SkipActs, RepeatActs, AttemptActs, UnwrapActs, StartCommandActs,
     StartStepsActs, StartBranchesActs, CommandEndsActs, UnwrappedActs, AttemptReturnsActs,
     RecoveryReturnsActs, BranchReturnsActs, JoinActs, StepReturnsActs, Zenon
  DEF ExecutionNext

LEMMA FinishTree ==
    ASSUME CallsInv, Finish PROVE DOMAIN frames' = {} /\ TreeOK(frames')
<1>1. /\ <<>> \in DOMAIN frames /\ frames[<<>>].at = "returned"
      /\ DOMAIN frames' = DOMAIN frames \ {<<>>}
  BY DEF Finish, Waits, Dropping
<1>2. ASSUME NEW x \in DOMAIN frames PROVE x = <<>>
  BY <1>1, CallTypes, OverRoot, NothingBelow
<1>3. DOMAIN frames' = {}
  BY <1>1, <1>2
<1> QED
  BY <1>3 DEF TreeOK

LEMMA TreeInvNext ==
    ASSUME CallsInv, [ExecutionNext]_executionVars PROVE TreeOK(frames')
<1>1. ASSUME NEW p \in DOMAIN frames, NEW N, Acted(frames, frames', p, N)
      PROVE  TreeOK(frames')
  BY <1>1, CallTypes, TreeActed
<1>2. CASE UNCHANGED executionVars
  BY <1>2 DEF executionVars, CallsInv, TreeInv
<1> QED
  BY <1>1, <1>2, EveryAction, ThrowTree, FinishTree

-----------------------------------------------------------------------------
(* A failure that is to abort everything stays, or comes up.               *)

Parallel == {"branches", "rejected"}

Kept(f, g) ==
    \/ g = f
    \/ f.at \in Parallel /\ g.at \in Parallel /\ g.cfg = f.cfg /\ g.root = f.root

KeptResults(f, g) ==
    \A k \in DOMAIN f.got : f.got[k] # NoExecution =>
        k \in DOMAIN g.got /\ g.got[k] = f.got[k]

LEMMA MarkStays ==
    ASSUME NEW fs, NEW gs, NEW r \in Seq(Nat), NEW q, DOMAIN fs \subseteq Seq(Nat),
           \A s \in DOMAIN gs : s = r \/ Over(s, r) => s \in DOMAIN fs /\ Kept(fs[s], gs[s]),
           MarkedBy(fs, r, q), q \in DOMAIN gs, Front(q) \in DOMAIN gs
    PROVE  MarkedBy(gs, r, q)
<1>1. /\ q \in DOMAIN fs /\ q # <<>> /\ (q = r \/ Over(q, r)) /\ Front(q) \in DOMAIN fs
      /\ fs[Front(q)].at \in {"steps", "branches", "rejected"}
  BY DEF MarkedBy
<1>2. Kept(fs[q], gs[q])
  BY <1>1
<1>3. Front(q) \in Seq(Nat) /\ Over(Front(q), r)
  BY <1>1, OverFront, OverTransitive
<1>4. Kept(fs[Front(q)], gs[Front(q)])
  BY <1>3
<1>5. ASSUME NEW s \in DOMAIN gs, Over(s, r), Len(s) >= Len(q) PROVE gs[s].at = "object"
  <2>1. s \in DOMAIN fs /\ Kept(fs[s], gs[s])
    BY <1>5
  <2>2. fs[s].at = "object"
    BY <1>5, <2>1 DEF MarkedBy
  <2> QED
    BY <2>1, <2>2 DEF Kept, Parallel
<1>6. gs[q].cfg = fs[q].cfg
  BY <1>2 DEF Kept
<1>7. /\ gs[Front(q)].cfg = fs[Front(q)].cfg /\ gs[Front(q)].root = fs[Front(q)].root
      /\ gs[Front(q)].at \in {"steps", "branches", "rejected"}
      /\ fs[Front(q)].at = "steps" => gs[Front(q)].at = "steps"
  BY <1>1, <1>4 DEF Kept, Parallel
<1> QED
  BY <1>1, <1>5, <1>6, <1>7 DEF MarkedBy

LEMMA DoomStays ==
    ASSUME NEW fs, NEW gs, NEW f, NEW r \in Seq(Nat), DOMAIN fs \subseteq Seq(Nat),
           DoomedAt(fs, f, r), r \in DOMAIN gs,
           \A s \in DOMAIN gs : s = r \/ Over(s, r) => s \in DOMAIN fs /\ Kept(fs[s], gs[s]),
           KeptResults(fs[r], gs[r]),
           fs[r].at = "returned" =>
              \A q : MarkedBy(fs, r, q) => q \in DOMAIN gs /\ Front(q) \in DOMAIN gs
    PROVE  DoomedAt(gs, f, r)
<1>1. r = f \/ Over(r, f)
  BY DEF DoomedAt
<1>2. ASSUME NEW s \in DOMAIN gs, Over(s, r) PROVE gs[s].at \notin {"attempt", "recover"}
  <2>1. s \in DOMAIN fs /\ Kept(fs[s], gs[s])
    BY <1>2
  <2>2. fs[s].at \notin {"attempt", "recover"}
    BY <1>2, <2>1 DEF DoomedAt
  <2> QED
    BY <2>1, <2>2 DEF Kept, Parallel
<1>3. Kept(fs[r], gs[r])
  OBVIOUS
<1>4. CASE ReturnsFailure(fs, r)
  <2>1. fs[r].at = "returned" /\ gs[r] = fs[r]
    BY <1>3, <1>4 DEF ReturnsFailure, Kept, Parallel
  <2>2. ASSUME NEW q \in DOMAIN fs, MarkedBy(fs, r, q) PROVE q \in DOMAIN gs /\ MarkedBy(gs, r, q)
    <3>1. q \in DOMAIN gs /\ Front(q) \in DOMAIN gs
      BY <2>1, <2>2
    <3> QED
      BY <2>2, <3>1, MarkStays
  <2>3. ReturnsFailure(gs, r)
    BY <1>4, <2>1, <2>2 DEF ReturnsFailure
  <2> QED
    BY <1>1, <1>2, <2>3 DEF DoomedAt
<1>5. CASE HoldsFailure(fs, r, f)
  <2>1. /\ fs[r].at \in Parallel /\ gs[r].at \in Parallel /\ gs[r].cfg = fs[r].cfg
    BY <1>3, <1>5 DEF HoldsFailure, Kept, Parallel
  <2>2. Way(r, f) \in DOMAIN gs[r].got /\ gs[r].got[Way(r, f)] = fs[r].got[Way(r, f)]
    BY <1>5 DEF HoldsFailure, KeptResults
  <2>3. HoldsFailure(gs, r, f)
    BY <1>5, <2>1, <2>2 DEF HoldsFailure, Parallel
  <2> QED
    BY <1>1, <1>2, <2>3 DEF DoomedAt
<1> QED
  BY <1>4, <1>5 DEF DoomedAt

\* It is where the call p did not act.
LEMMA DoomElsewhere ==
    ASSUME NEW fs, NEW gs, NEW f, NEW r \in DOMAIN fs, NEW p, NEW N,
           DOMAIN fs \subseteq Seq(Nat), Acted(fs, gs, p, N), DoomedAt(fs, f, r), r \notin N,
           r = p => Kept(fs[p], gs[p]) /\ KeptResults(fs[p], gs[p])
    PROVE  r \in DOMAIN gs /\ DoomedAt(gs, f, r)
<1>1. \A n \in N, x \in DOMAIN fs : ~Over(n, x)
  BY DEF Acted
<1>2. \A x \in DOMAIN fs : x = r \/ Over(x, r) => x \notin N
  BY <1>1
<1>3. \A x \in DOMAIN fs : x = r \/ Over(x, r) => x \in DOMAIN gs
  BY <1>2 DEF Acted
<1>4. ASSUME NEW s \in DOMAIN gs, s = r \/ Over(s, r) PROVE s \in DOMAIN fs /\ Kept(fs[s], gs[s])
  <2>1. s \notin N
    BY <1>1, <1>4
  <2>2. s \in DOMAIN fs
    BY <2>1 DEF Acted
  <2>3. CASE s # p
    BY <2>1, <2>2, <2>3 DEF Acted, Kept
  <2>4. CASE s = p /\ s = r
    BY <2>2, <2>4
  <2>5. CASE s = p /\ Over(s, r)
    BY <2>2, <2>5 DEF Acted, Kept, Parallel
  <2> QED
    BY <1>4, <2>3, <2>4, <2>5
<1>5. KeptResults(fs[r], gs[r])
  <2>1. CASE r # p
    <3>1. gs[r] = fs[r]
      BY <2>1 DEF Acted
    <3> QED
      BY <3>1 DEF KeptResults
  <2> QED
    BY <2>1
<1>6. ASSUME NEW q, MarkedBy(fs, r, q) PROVE q \in DOMAIN gs /\ Front(q) \in DOMAIN gs
  <2>1. /\ q \in DOMAIN fs /\ q # <<>> /\ q \in Seq(Nat) /\ (q = r \/ Over(q, r))
        /\ Front(q) \in DOMAIN fs
    BY <1>6 DEF MarkedBy
  <2>2. Over(Front(q), r)
    BY <2>1, OverFront, OverTransitive
  <2> QED
    BY <1>3, <2>1, <2>2
<1> QED
  BY <1>3, <1>4, <1>5, <1>6, DoomStays

\* A call that begins, or whose command ends, was nothing's end.
LEMMA DoomQuiet ==
    ASSUME CallsInv, NEW p \in DOMAIN frames, NEW N, Acted(frames, frames', p, N),
           frames[p].at \in {"called", "command"}, NEW f, Doomed(frames, f)
    PROVE  Doomed(frames', f)
<1>1. PICK r \in DOMAIN frames : DoomedAt(frames, f, r)
  BY DEF Doomed
<1>2. r # p
  BY <1>1 DEF DoomedAt, ReturnsFailure, HoldsFailure
<1>3. r \notin N
  BY CallTypes, NothingBelow, PartsBelow
<1> QED
  BY <1>1, <1>2, <1>3, CallTypes, DoomElsewhere DEF Doomed

\* What tries again has no failure under it that is to abort everything.
LEMMA DoomRetried ==
    ASSUME CallsInv, NEW p \in DOMAIN frames, NEW N, Acted(frames, frames', p, N),
           frames[p].at \in {"attempt", "recover"}, NEW f, Doomed(frames, f)
    PROVE  Doomed(frames', f)
<1>1. PICK r \in DOMAIN frames : DoomedAt(frames, f, r)
  BY DEF Doomed
<1>2. r # p
  BY <1>1 DEF DoomedAt, ReturnsFailure, HoldsFailure
<1>3. r \notin N
  BY <1>1, CallTypes, PartsBelow DEF DoomedAt
<1> QED
  BY <1>1, <1>2, <1>3, CallTypes, DoomElsewhere DEF Doomed

\* The failure of a part that p takes is what p then returns or holds.
LEMMA DoomComesUp ==
    ASSUME CallsInv, NEW p \in DOMAIN frames, NEW N, Acted(frames, frames', p, N),
           NEW f \in Seq(Nat), NEW c \in N \cap DOMAIN frames, DoomedAt(frames, f, c),
           ReturnsFailure(frames', p) \/ HoldsFailure(frames', p, f)
    PROVE  Doomed(frames', f)
<1>1. p \in DOMAIN frames' /\ p \in Seq(Nat) /\ c \in Seq(Nat) /\ Over(p, c) /\ p \notin N
  BY CallTypes, PartsBelow DEF Acted
<1>2. Over(p, f)
  BY <1>1, OverTransitive DEF DoomedAt
<1>3. ASSUME NEW s \in DOMAIN frames', Over(s, p)
      PROVE  frames'[s].at \notin {"attempt", "recover"}
  <2>1. s \in Seq(Nat) /\ s \notin N /\ s # p
    BY <1>1, <1>3, CallTypes, PartsBelow, OverIsLess
  <2>2. s \in DOMAIN frames /\ frames'[s] = frames[s]
    BY <2>1 DEF Acted
  <2>3. Over(s, c)
    BY <1>1, <1>3, <2>1, OverTransitive
  <2> QED
    BY <2>2, <2>3 DEF DoomedAt
<1>4. DoomedAt(frames', f, p)
  BY <1>1, <1>2, <1>3 DEF DoomedAt
<1> QED
  BY <1>1, <1>4 DEF Doomed

LEMMA UnwrappedDoom ==
    ASSUME CallsInv, NEW p \in DOMAIN frames, Unwrapped(p), NEW f \in Seq(Nat),
           Doomed(frames, f)
    PROVE  Doomed(frames', f)
<1> DEFINE c == Append(p, 1)
<1>1. /\ Acted(frames, frames', p, {c}) /\ frames[p].at = "object" /\ c \in DOMAIN frames
      /\ frames'[p].at = "returned" /\ frames'[p].result = frames[c].result
  BY UnwrappedActs
<1>2. /\ p \in Seq(Nat) /\ c \in Seq(Nat) /\ Over(p, c) /\ Front(c) = p
      /\ DOMAIN frames \subseteq Seq(Nat)
      /\ \A q \in Seq(Nat) : Over(q, c) <=> q = p \/ Over(q, p)
  BY CallTypes, OverAppend, FrontAppend
<1> HIDE DEF c
<1>3. PICK r \in DOMAIN frames : DoomedAt(frames, f, r)
  BY DEF Doomed
<1>4. r # p
  BY <1>1, <1>3 DEF DoomedAt, ReturnsFailure, HoldsFailure
<1>5. CASE r # c
  BY <1>1, <1>3, <1>4, <1>5, CallTypes, DoomElsewhere DEF Doomed
<1>6. CASE r = c
  <2>1. ReturnsFailure(frames, c)
    <3>1. frames[c].at = "returned"
      BY <1>1 DEF Acted
    <3> QED
      BY <1>3, <1>6, <3>1 DEF DoomedAt, HoldsFailure
  <2>2. ASSUME NEW q \in DOMAIN frames, MarkedBy(frames, c, q)
        PROVE  q \in DOMAIN frames' /\ MarkedBy(frames', p, q)
    <3>1. /\ q # <<>> /\ q \in Seq(Nat) /\ (q = c \/ Over(q, c)) /\ Front(q) \in DOMAIN frames
          /\ frames[Front(q)].at \in {"steps", "branches", "rejected"}
      BY <1>2, <2>2 DEF MarkedBy
    <3>2. q = p \/ Over(q, p)
      BY <1>1, <1>2, <3>1
    <3>3. Over(Front(q), p) /\ Front(q) \in Seq(Nat)
      BY <1>2, <3>1, <3>2, OverFront, OverTransitive
    <3>4. \A s \in DOMAIN frames : s = p \/ Over(s, p) => s # c /\ s \in DOMAIN frames'
      BY <1>1, <1>2, OverIsLess DEF Acted
    <3>5. \A s \in DOMAIN frames : Over(s, p) => frames'[s] = frames[s]
      BY <1>1, <1>2, OverIsLess DEF Acted
    <3>6. q \in DOMAIN frames' /\ Front(q) \in DOMAIN frames'
      BY <3>1, <3>2, <3>3, <3>4
    <3>7. frames'[Front(q)] = frames[Front(q)]
      BY <3>1, <3>3, <3>5
    <3>8. frames'[q].cfg.failure = frames[q].cfg.failure
      BY <1>1, <3>2, <3>5 DEF Acted
    <3>9. ASSUME NEW s \in DOMAIN frames', Over(s, p), Len(s) >= Len(q)
          PROVE  frames'[s].at = "object"
      <4>1. s \in DOMAIN frames /\ s \in Seq(Nat)
        <5>1. s # c
          BY <1>2, <3>9, OverIsLess
        <5> QED
          BY <1>1, <1>2, <5>1 DEF Acted
      <4>2. Over(s, c) /\ frames'[s] = frames[s]
        BY <1>2, <3>5, <3>9, <4>1
      <4> QED
        BY <2>2, <3>9, <4>1, <4>2 DEF MarkedBy
    <3>10. \/ frames[q].cfg.failure = "root" \/ frames[Front(q)].cfg.failure = "root"
           \/ /\ frames[Front(q)].root /\ frames[Front(q)].at = "steps"
              /\ Len(frames[Front(q)].cfg.kids) = 1
      BY <2>2 DEF MarkedBy
    <3> QED
      BY <3>1, <3>2, <3>6, <3>7, <3>8, <3>9, <3>10 DEF MarkedBy
  <2>3. ReturnsFailure(frames', p)
    BY <1>1, <2>1, <2>2 DEF ReturnsFailure
  <2> QED
    BY <1>1, <1>3, <1>6, <2>3, DoomComesUp
<1> QED
  BY <1>5, <1>6

\* A part that returns to a node with steps or branches is its own end.
LEMMA MarkOfPart ==
    ASSUME CallsInv, NEW p \in DOMAIN frames, NEW k \in Nat, Append(p, k) \in DOMAIN frames,
           frames[p].at \in {"steps", "branches", "rejected"}, NEW q \in DOMAIN frames,
           MarkedBy(frames, Append(p, k), q)
    PROVE  \/ frames[p].cfg.kids[k].failure = "root"
           \/ frames[p].cfg.failure = "root"
           \/ frames[p].root /\ frames[p].at = "steps" /\ Len(frames[p].cfg.kids) = 1
<1> DEFINE c == Append(p, k)
<1>1. /\ p \in Seq(Nat) /\ c \in Seq(Nat) /\ Over(p, c) /\ Way(p, c) = k
      /\ Len(c) = Len(p) + 1 /\ Front(c) = p
      /\ \A x \in Seq(Nat) : Over(x, c) => x = p \/ Over(x, p)
  BY CallTypes, OverAppend, FrontAppend
<1>2. c \in DOMAIN frames /\ MarkedBy(frames, c, q)
  OBVIOUS
<1> HIDE DEF c
<1>3. q \in Seq(Nat) /\ (q = c \/ Over(q, c))
  BY <1>2, CallTypes DEF MarkedBy
<1>4. ASSUME Over(q, c) PROVE FALSE
  <2>1. q = p \/ Over(q, p)
    BY <1>1, <1>3, <1>4
  <2>2. Len(p) >= Len(q)
    BY <1>1, <1>3, <2>1, PathTypes DEF Over
  <2>3. frames[p].at = "object"
    BY <1>1, <1>2, <2>2 DEF MarkedBy
  <2> QED
    BY <2>3
<1>5. q = c
  BY <1>3, <1>4
<1>6. frames[c].cfg.failure = frames[p].cfg.kids[k].failure
  BY <1>1, <1>2, CallTypes DEF TreeOK, WayOK
<1> QED
  BY <1>1, <1>2, <1>5, <1>6 DEF MarkedBy

LEMMA ScopesOfPart ==
    ASSUME CallsInv, NEW p \in DOMAIN frames, NEW k \in DOMAIN frames[p].cfg.kids,
           Append(p, k) \in DOMAIN frames, frames[Append(p, k)].at = "returned"
    PROVE  /\ k \in Nat /\ frames[p].cfg.kids[k].failure \in ScopeNames
           /\ frames[p].cfg.failure \in ScopeNames
           /\ frames[Append(p, k)].result \in Results
           /\ frames[Append(p, k)].result.scope \in ScopeNames
           /\ frames[Append(p, k)].result # NoExecution
<1>1. frames[p].cfg \in Config
  BY CallTypes
<1>2. k \in Nat /\ frames[p].cfg.kids[k] \in Config
  BY <1>1, KidsAreConfig
<1>3. frames[p].cfg.kids[k].failure \in ScopeNames /\ frames[p].cfg.failure \in ScopeNames
  BY <1>1, <1>2 DEF Config, NodeOf, ScopeNames
<1> DEFINE e == frames[Append(p, k)].result
<1>4. e \in Results
  BY CallTypes DEF FrameOK, ResultOK
<1> HIDE DEF e
<1>5. e.scope \in ScopeNames /\ e # NoExecution
  BY <1>4, NoExecutionIsNone DEF Results
<1> QED
  BY <1>2, <1>3, <1>4, <1>5 DEF e

LEMMA StepReturnsDoom ==
    ASSUME CallsInv, NEW p \in DOMAIN frames, StepReturns(p), NEW f \in Seq(Nat),
           Doomed(frames, f)
    PROVE  Doomed(frames', f)
<1> DEFINE k == frames[p].i
           c == Append(p, k)
           e == frames[c].result
<1>1. /\ frames[p].at = "steps" /\ c \in DOMAIN frames
      /\ \A x \in DOMAIN frames : Over(p, x) => x = c
      /\ \E N : Acted(frames, frames', p, N)
      /\ e.code # 0 /\ StepScope(frames[p], e) = "root" =>
            /\ frames'[p].at = "returned" /\ frames'[p].result.code # 0
            /\ frames'[p].result.scope = "root"
  BY StepReturnsActs
<1>2. PICK N : Acted(frames, frames', p, N)
  BY <1>1
<1>3. PICK r \in DOMAIN frames : DoomedAt(frames, f, r)
  BY DEF Doomed
<1>4. r # p
  BY <1>1, <1>3 DEF DoomedAt, ReturnsFailure, HoldsFailure
<1>5. CASE r \notin N
  BY <1>2, <1>3, <1>4, <1>5, CallTypes, DoomElsewhere DEF Doomed
<1>6. CASE r \in N
  <2>1. r = c /\ frames[c].at = "returned"
    <3>1. Over(p, r) /\ frames[r].at = "returned"
      BY <1>2, <1>6, CallTypes, PartsBelow DEF Acted
    <3> QED
      BY <1>1, <3>1
  <2>2. ReturnsFailure(frames, c)
    BY <1>3, <2>1 DEF DoomedAt, HoldsFailure
  <2>3. k \in DOMAIN frames[p].cfg.kids
    BY <1>1, CallTypes DEF FrameOK
  <2>4. /\ k \in Nat /\ frames[p].cfg.kids[k].failure \in ScopeNames
        /\ frames[p].cfg.failure \in ScopeNames /\ e.scope \in ScopeNames
    BY <1>1, <2>1, <2>3, ScopesOfPart
  <2>5. \/ e.scope = "root" \/ frames[p].cfg.kids[k].failure = "root"
        \/ frames[p].cfg.failure = "root"
        \/ frames[p].root /\ Len(frames[p].cfg.kids) = 1
    BY <1>1, <2>2, <2>4, MarkOfPart DEF ReturnsFailure
  <2>6. e.code # 0
    BY <2>2 DEF ReturnsFailure
  <2> HIDE DEF e, c, k
  <2>7. StepScope(frames[p], e) = "root"
    <3> DEFINE scopes == {e.scope, frames[p].cfg.kids[k].failure, frames[p].cfg.failure,
                          IF frames[p].root /\ Len(frames[p].cfg.kids) = 1
                          THEN "root" ELSE "default"}
    <3>1. scopes \in SUBSET ScopeNames /\ scopes # {} /\ "root" \in scopes
      BY <2>4, <2>5 DEF ScopeNames
    <3>2. StepScope(frames[p], e) = Widest(scopes)
      BY DEF StepScope, k
    <3> HIDE DEF scopes
    <3> QED
      BY <3>1, <3>2, WidestScope
  <2>8. ReturnsFailure(frames', p)
    BY <1>1, <2>6, <2>7 DEF ReturnsFailure
  <2> QED
    BY <1>2, <1>3, <1>6, <2>1, <2>8, DoomComesUp
<1> QED
  BY <1>5, <1>6

LEMMA BranchReturnsDoom ==
    ASSUME CallsInv, NEW p \in DOMAIN frames, BranchReturns(p), NEW f \in Seq(Nat),
           Doomed(frames, f)
    PROVE  Doomed(frames', f)
<1>0. PICK k \in DOMAIN frames[p].cfg.kids : \E N :
         /\ Acted(frames, frames', p, N) /\ frames[p].at \in {"branches", "rejected"}
         /\ frames'[p].at = frames[p].at /\ frames'[p].cfg = frames[p].cfg
         /\ DOMAIN frames'[p].got = DOMAIN frames[p].got
         /\ Append(p, k) \in DOMAIN frames /\ N \cap DOMAIN frames \subseteq {Append(p, k)}
         /\ k \in DOMAIN frames[p].got /\ frames[p].got[k] = NoExecution
         /\ frames'[p].got[k] = frames[Append(p, k)].result
         /\ \A l \in DOMAIN frames[p].got \ {k} : frames'[p].got[l] = frames[p].got[l]
  BY BranchReturnsActs
<1>1. PICK N :
         /\ Acted(frames, frames', p, N) /\ frames[p].at \in {"branches", "rejected"}
         /\ frames'[p].at = frames[p].at /\ frames'[p].cfg = frames[p].cfg
         /\ DOMAIN frames'[p].got = DOMAIN frames[p].got
         /\ Append(p, k) \in DOMAIN frames /\ N \cap DOMAIN frames \subseteq {Append(p, k)}
         /\ k \in DOMAIN frames[p].got /\ frames[p].got[k] = NoExecution
         /\ frames'[p].got[k] = frames[Append(p, k)].result
         /\ \A l \in DOMAIN frames[p].got \ {k} : frames'[p].got[l] = frames[p].got[l]
  BY <1>0
<1> DEFINE c == Append(p, k)
           e == frames[c].result
<1>2. PICK r \in DOMAIN frames : DoomedAt(frames, f, r)
  BY DEF Doomed
<1>3. CASE r \notin N
  <2>1. KeptResults(frames[p], frames'[p])
    BY <1>1 DEF KeptResults
  <2>2. frames'[p].root = frames[p].root
    BY <1>1 DEF Acted
  <2>3. Kept(frames[p], frames'[p])
    BY <1>1, <2>2 DEF Kept, Parallel
  <2>4. r \in DOMAIN frames' /\ DoomedAt(frames', f, r)
    BY <1>1, <1>2, <1>3, <2>1, <2>3, CallTypes, DoomElsewhere
  <2> QED
    BY <2>4 DEF Doomed
<1>4. CASE r \in N
  <2>1. r = c /\ frames[c].at = "returned"
    <3>1. r = c
      BY <1>1, <1>4
    <3>2. r \in N \cap DOMAIN frames
      BY <1>4
    <3>3. frames[r].at = "returned"
      BY <1>1, <3>2 DEF Acted
    <3> QED
      BY <3>1, <3>3
  <2>2. ReturnsFailure(frames, c)
    BY <1>2, <2>1 DEF DoomedAt, HoldsFailure
  <2>3. /\ k \in Nat /\ frames[p].cfg.kids[k].failure \in ScopeNames
        /\ frames[p].cfg.failure \in ScopeNames /\ e.scope \in ScopeNames
        /\ e # NoExecution
    BY <1>1, <2>1, ScopesOfPart
  <2>4. \/ e.scope = "root" \/ frames[p].cfg.kids[k].failure = "root"
        \/ frames[p].cfg.failure = "root"
    BY <1>1, <2>2, <2>3, MarkOfPart DEF ReturnsFailure
  <2>5. e.code # 0
    BY <2>2 DEF ReturnsFailure
  <2>6. Over(p, f) /\ Way(p, f) = k
    <3>1. p \in Seq(Nat) /\ c \in Seq(Nat) /\ Over(p, c) /\ Way(p, c) = k
      BY <2>3, CallTypes, OverAppend
    <3>2. c = f \/ Over(c, f)
      BY <1>2, <2>1 DEF DoomedAt
    <3> HIDE DEF c
    <3> QED
      BY <3>1, <3>2, OverTransitive
  <2> HIDE DEF e, c
  <2>7. Widest({e.scope, frames[p].cfg.kids[k].failure, frames[p].cfg.failure}) = "root"
    <3> DEFINE scopes == {e.scope, frames[p].cfg.kids[k].failure, frames[p].cfg.failure}
    <3>1. scopes \in SUBSET ScopeNames /\ scopes # {} /\ "root" \in scopes
      BY <2>3, <2>4
    <3> HIDE DEF scopes
    <3>2. Widest(scopes) = "root"
      BY <3>1, WidestScope
    <3> QED
      BY <3>2 DEF scopes
  <2>8. frames'[p].got[k] = e
    BY <1>1 DEF e, c
  <2>9. HoldsFailure(frames', p, f)
    BY <1>1, <2>3, <2>5, <2>6, <2>7, <2>8 DEF HoldsFailure
  <2> QED
    BY <1>1, <1>2, <1>4, <2>1, <2>9, DoomComesUp
<1> QED
  BY <1>3, <1>4

LEMMA JoinAborts ==
    ASSUME NEW p \in Seq(Nat), NEW cfg \in Config, NEW returned,
           DOMAIN returned = DOMAIN cfg.kids,
           \A l \in DOMAIN returned : ResultOK(p, returned[l]),
           NEW k \in DOMAIN returned, returned[k].code # 0,
           Widest({returned[k].scope, cfg.kids[k].failure, cfg.failure}) = "root"
    PROVE  LET e == JoinedExecution(p, cfg, returned) IN e.code # 0 /\ e.scope = "root"
<1> DEFINE es == [l \in DOMAIN returned |->
                    IF returned[l].truncated /\ returned[l].full = Unreadable
                    THEN Incomplete(returned[l]) ELSE returned[l]]
           First(K) == CHOOSE l \in K : \A j \in K : l <= j
           roots == RootFailures(cfg, es)
           e == es[First(roots)]
           w == [e EXCEPT !.scope = "root"]
<1>1. ASSUME NEW l \in DOMAIN returned
      PROVE  /\ es[l] \in Results /\ es[l].scope = returned[l].scope
             /\ returned[l].code # 0 => es[l].code # 0
  <2>1. returned[l] \in Results
    BY DEF ResultOK
  <2> DEFINE i == Incomplete(returned[l])
  <2>2. i \in Results /\ i.code = 74 /\ i.scope = returned[l].scope
    BY <2>1 DEF Incomplete, Results
  <2>3. es[l] = i \/ es[l] = returned[l]
    OBVIOUS
  <2> HIDE DEF es, i
  <2> QED
    BY <2>1, <2>2, <2>3
<1>2. DOMAIN es = DOMAIN returned
  OBVIOUS
<1>3. roots # {} => JoinedExecution(p, cfg, returned) = w
  BY DEF JoinedExecution
<1> HIDE DEF es
<1>4. k \in roots
  BY <1>1, <1>2 DEF RootFailures
<1>5. First(roots) \in roots /\ roots \subseteq DOMAIN es
  <2>1. roots \subseteq DOMAIN es
    BY DEF RootFailures
  <2>2. DOMAIN es \subseteq Nat
    BY <1>2, KidsAreConfig
  <2> HIDE DEF roots
  <2> QED
    BY <1>4, <2>1, <2>2, FirstOfSome
<1>6. e \in Results /\ e.code # 0
  <2>1. \A l \in roots : es[l].code # 0
    BY DEF RootFailures
  <2> HIDE DEF roots, First
  <2> QED
    BY <1>1, <1>2, <1>5, <2>1
<1> HIDE DEF roots, First, e
<1>7. w.code # 0 /\ w.scope = "root"
  BY <1>6 DEF Results
<1> HIDE DEF w
<1> QED
  BY <1>3, <1>4, <1>7

LEMMA JoinDoom ==
    ASSUME CallsInv, NEW p \in DOMAIN frames, Join(p), NEW f \in Seq(Nat), Doomed(frames, f)
    PROVE  Doomed(frames', f)
<1>1. /\ Acted(frames, frames', p, {}) /\ frames[p].at = "branches"
      /\ DOMAIN frames[p].got = DOMAIN frames[p].cfg.kids
      /\ \A k \in DOMAIN frames[p].got : ResultOK(p, frames[p].got[k])
      /\ frames'[p].at = "returned"
      /\ frames'[p].result = JoinedExecution(p, frames[p].cfg, frames[p].got)
  BY JoinActs
<1>2. PICK r \in DOMAIN frames : DoomedAt(frames, f, r)
  BY DEF Doomed
<1>3. CASE r # p
  BY <1>1, <1>2, <1>3, CallTypes, DoomElsewhere DEF Doomed
<1>4. CASE r = p
  <2>1. HoldsFailure(frames, p, f)
    BY <1>1, <1>2, <1>4 DEF DoomedAt, ReturnsFailure
  <2>2. PICK k \in DOMAIN frames[p].got :
           /\ frames[p].got[k].code # 0
           /\ Widest({frames[p].got[k].scope, frames[p].cfg.kids[k].failure,
                      frames[p].cfg.failure}) = "root"
    BY <2>1 DEF HoldsFailure
  <2>3. frames'[p].result.code # 0 /\ frames'[p].result.scope = "root"
    <3> DEFINE cfg == frames[p].cfg
               returned == frames[p].got
               e == JoinedExecution(p, cfg, returned)
    <3>1. p \in Seq(Nat) /\ cfg \in Config
      BY CallTypes
    <3>2. DOMAIN returned = DOMAIN cfg.kids /\ \A l \in DOMAIN returned : ResultOK(p, returned[l])
      BY <1>1
    <3>3. /\ k \in DOMAIN returned /\ returned[k].code # 0
          /\ Widest({returned[k].scope, cfg.kids[k].failure, cfg.failure}) = "root"
      BY <2>2
    <3>4. frames'[p].result = e
      BY <1>1
    <3> HIDE DEF cfg, returned
    <3>5. e.code # 0 /\ e.scope = "root"
      BY <3>1, <3>2, <3>3, JoinAborts
    <3> QED
      BY <3>4, <3>5
  <2>4. ReturnsFailure(frames', p)
    BY <1>1, <2>3 DEF ReturnsFailure
  <2>5. ASSUME NEW s \in DOMAIN frames', Over(s, p)
        PROVE  frames'[s].at \notin {"attempt", "recover"}
    <3>1. s \in DOMAIN frames /\ s # p
      BY <1>1, <2>5, CallTypes, OverIsLess DEF Acted
    <3>2. frames'[s] = frames[s]
      BY <1>1, <3>1 DEF Acted
    <3> QED
      BY <1>2, <1>4, <2>5, <3>1, <3>2 DEF DoomedAt
  <2>6. DoomedAt(frames', f, p) /\ p \in DOMAIN frames'
    BY <1>1, <1>2, <1>4, <2>4, <2>5 DEF DoomedAt, Acted
  <2> QED
    BY <2>6 DEF Doomed
<1> QED
  BY <1>3, <1>4

\* Two calls of which neither is above the other are called from the branches
\* of a parallel node.
LEMMA Meeting ==
    ASSUME NEW fs, DOMAIN fs \subseteq Seq(Nat), TreeOK(fs),
           NEW p \in DOMAIN fs, NEW r \in DOMAIN fs, p # r, ~Over(p, r), ~Over(r, p),
           NEW x \in DOMAIN fs, Over(x, p), Over(x, r)
    PROVE  \E m \in DOMAIN fs : /\ m = x \/ Over(x, m)
                                /\ Over(m, p) /\ Over(m, r) /\ fs[m].at \in Parallel
<1> DEFINE Common(m) == m \in DOMAIN fs /\ (m = x \/ Over(x, m)) /\ Over(m, p) /\ Over(m, r)
           Rest == {Len(p) - Len(m) : m \in {y \in DOMAIN fs : Common(y)}}
<1>1. \A m \in DOMAIN fs : Common(m) => Len(m) \in Nat /\ Len(p) \in Nat /\ Len(m) < Len(p)
  BY OverIsLess
<1>2. Rest \subseteq Nat
  BY <1>1
<1>3. Rest # {}
  OBVIOUS
<1>4. PICK n \in Rest : \A l \in Rest : n <= l
  <2> HIDE DEF Rest
  <2> QED
    BY <1>2, <1>3, LeastOfSome
<1>5. PICK m \in DOMAIN fs : Common(m) /\ n = Len(p) - Len(m)
  OBVIOUS
<1>6. \A y \in DOMAIN fs : Common(y) => Len(y) <= Len(m)
  <2> SUFFICES ASSUME NEW y \in DOMAIN fs, Common(y) PROVE Len(y) <= Len(m)
    OBVIOUS
  <2>1. Len(p) - Len(y) \in Rest
    OBVIOUS
  <2>2. Len(p) - Len(m) <= Len(p) - Len(y)
    BY <1>4, <1>5, <2>1
  <2> HIDE DEF Rest, Common
  <2> QED
    BY <1>1, <1>5, <2>2
<1>7. ASSUME fs[m].at \notin Parallel PROVE FALSE
  <2>1. WaitsFor(fs[m], Way(m, p)) /\ WaitsFor(fs[m], Way(m, r))
    BY <1>5 DEF TreeOK, WayOK
  <2>2. Way(m, p) = Way(m, r)
    BY <1>7, <2>1 DEF WaitsFor, Parallel
  <2> DEFINE c == Append(m, Way(m, p))
  <2>3. c \in DOMAIN fs
    BY <1>5, <1>7 DEF TreeOK, WayOK, Parallel
  <2>4. c \in Seq(Nat) /\ (c = p \/ Over(c, p)) /\ (c = r \/ Over(c, r))
    BY <1>5, <2>2, OverStep
  <2>5. Way(m, p) \in Nat
    BY <1>5, OverIsLess
  <2>6. Over(m, c) /\ Len(c) = Len(m) + 1
    BY <2>5, OverAppend
  <2> HIDE DEF c
  <2>7. Over(c, p) /\ Over(c, r)
    BY <2>4
  <2>8. Common(c)
    BY <1>5, <2>3, <2>6, <2>7, OverTransitive
  <2>9. Len(c) <= Len(m) /\ Len(m) \in Nat
    BY <1>1, <1>5, <1>6, <2>3, <2>8
  <2> QED
    BY <2>6, <2>9
<1> QED
  BY <1>5, <1>7

LEMMA ThrowDoom ==
    ASSUME CallsInv, NEW p \in DOMAIN frames, frames[p].at = "called", Throw(p),
           NEW f \in Seq(Nat), Doomed(frames, f)
    PROVE  Doomed(frames', f)
<1>1. \A x \in DOMAIN frames' :
         /\ x \in DOMAIN frames /\ x # p
         /\ Over(x, p) => frames[x].at \in Parallel /\ frames'[x].at = "rejected"
         /\ ~Over(x, p) => frames'[x] = frames[x]
         /\ frames'[x].cfg = frames[x].cfg /\ frames'[x].root = frames[x].root
         /\ frames'[x].got = frames[x].got
  BY ThrowActs DEF Parallel
<1>2. \A x \in DOMAIN frames \ {p} :
         (Over(x, p) => frames[x].at \in Parallel) => x \in DOMAIN frames'
  BY ThrowActs DEF Parallel
<1>3. TreeOK(frames) /\ p \in Seq(Nat) /\ DOMAIN frames \subseteq Seq(Nat)
  BY CallTypes
<1>4. PICK r \in DOMAIN frames : DoomedAt(frames, f, r)
  BY DEF Doomed
<1>5. r # p /\ (frames[r].at = "returned" \/ frames[r].at \in Parallel)
  BY <1>4 DEF DoomedAt, ReturnsFailure, HoldsFailure, Parallel
<1>6. Over(r, p) => frames[r].at \in Parallel
  BY <1>3, <1>5, NothingBelow
<1>7. r \in DOMAIN frames'
  BY <1>2, <1>5, <1>6
<1>8. \A s \in DOMAIN frames' : s \in DOMAIN frames /\ Kept(frames[s], frames'[s])
  BY <1>1 DEF Kept, Parallel
<1>9. KeptResults(frames[r], frames'[r])
  BY <1>1, <1>7 DEF KeptResults
<1>10. ~Over(p, r)
  BY <1>3, NothingBelow
<1>11. ASSUME frames[r].at = "returned", NEW q, MarkedBy(frames, r, q)
       PROVE  q \in DOMAIN frames' /\ Front(q) \in DOMAIN frames'
  <2>1. /\ q \in DOMAIN frames /\ q # <<>> /\ q \in Seq(Nat) /\ (q = r \/ Over(q, r))
        /\ Front(q) \in DOMAIN frames
        /\ frames[Front(q)].at \in {"steps", "branches", "rejected"}
    BY <1>3, <1>11 DEF MarkedBy
  <2>2. ~Over(r, p)
    BY <1>6, <1>11 DEF Parallel
  <2>3. ASSUME NEW m \in DOMAIN frames, Over(m, r), Len(m) >= Len(q)
        PROVE  frames[m].at \notin Parallel
    BY <1>11, <2>3 DEF MarkedBy, Parallel
  <2>4. q # p /\ ~Over(q, p)
    <3>1. q # p
      BY <1>5, <1>10, <2>1
    <3>2. ASSUME Over(q, p) PROVE FALSE
      <4>1. Over(q, r)
        BY <2>1, <2>2, <3>2
      <4>2. PICK m \in DOMAIN frames :
               (m = q \/ Over(q, m)) /\ Over(m, r) /\ frames[m].at \in Parallel
        BY <1>3, <1>5, <1>10, <2>1, <2>2, <3>2, <4>1, Meeting
      <4>3. Len(m) >= Len(q)
        BY <1>3, <2>1, <4>2, PathTypes DEF Over
      <4> QED
        BY <2>3, <4>2, <4>3
    <3> QED
      BY <3>1, <3>2
  <2>5. q \in DOMAIN frames'
    BY <1>2, <2>1, <2>4
  <2> DEFINE a == Front(q)
  <2>6. /\ a \in Seq(Nat) /\ Over(a, q) /\ Len(a) = Len(q) - 1 /\ Over(a, r)
        /\ a \in DOMAIN frames /\ frames[a].at \in {"steps", "branches", "rejected"}
    <3>1. a \in Seq(Nat) /\ Over(a, q) /\ Len(a) = Len(q) - 1
      BY <2>1, OverFront
    <3>2. r \in Seq(Nat)
      BY <1>3
    <3>3. a \in DOMAIN frames /\ frames[a].at \in {"steps", "branches", "rejected"}
      BY <2>1
    <3> HIDE DEF a
    <3>4. Over(a, r)
      BY <2>1, <3>1, <3>2, OverTransitive
    <3> QED
      BY <3>1, <3>3, <3>4
  <2> HIDE DEF a
  <2>7. a # p
    BY <2>6
  <2>8. ASSUME Over(a, p) PROVE frames[a].at \in Parallel
    <3>1. PICK m \in DOMAIN frames :
             (m = a \/ Over(a, m)) /\ Over(m, r) /\ frames[m].at \in Parallel
      BY <1>3, <1>5, <1>10, <2>2, <2>6, <2>8, Meeting
    <3>2. CASE Over(a, m)
      <4>1. Len(m) \in Nat /\ Len(a) \in Nat /\ Len(q) \in Nat /\ Len(a) < Len(m)
        BY <1>3, <2>1, <2>6, <3>2, PathTypes, OverIsLess
      <4>2. Len(m) >= Len(q)
        BY <2>6, <4>1
      <4> QED
        BY <2>3, <3>1, <4>2
    <3> QED
      BY <3>1, <3>2
  <2>9. a \in DOMAIN frames'
    BY <1>2, <2>6, <2>7, <2>8
  <2> QED
    BY <2>5, <2>9 DEF a
<1>12. DoomedAt(frames', f, r)
  BY <1>3, <1>4, <1>7, <1>8, <1>9, <1>11, DoomStays
<1> QED
  BY <1>7, <1>12 DEF Doomed

\* There is an outermost object around a call, if only the call itself.
LEMMA OuterShows ==
    ASSUME CallsInv, NEW p \in DOMAIN frames, frames[p].at = "command"
    PROVE  LET q == Outer(p) IN
           /\ q \in DOMAIN frames /\ (q = p \/ Over(q, p))
           /\ \A s \in DOMAIN frames : Over(s, p) /\ Len(s) >= Len(q) => frames[s].at = "object"
           /\ q # <<>> => Front(q) \in DOMAIN frames /\ frames[Front(q)].at # "object"
<1>1. TreeOK(frames) /\ DOMAIN frames \subseteq Seq(Nat) /\ p \in Seq(Nat)
  BY CallTypes
<1>2. Above(p) = {x \in DOMAIN frames : Over(x, p)}
  BY <1>1, OverIsStrictPrefix DEF Above
<1> DEFINE Inside(q) == \A s \in Above(p) : Len(s) >= Len(q) => frames[s].at = "object"
           Around == {q \in Above(p) \cup {p} : Inside(q)}
           Lens == {Len(q) : q \in Around}
<1>3. p \in Around
  <2>1. \A s \in Above(p) : ~(Len(s) >= Len(p))
    BY <1>1, <1>2, OverIsLess
  <2> QED
    BY <2>1
<1>4. Around \subseteq DOMAIN frames /\ Around \subseteq Seq(Nat)
  BY <1>1, <1>2
<1>5. PICK q \in Around : \A x \in Around : Len(q) <= Len(x)
  <2>1. Lens \subseteq Nat /\ Lens # {}
    <3> HIDE DEF Around
    <3> QED
      BY <1>3, <1>4, PathTypes
  <2> HIDE DEF Lens
  <2>2. \E y \in Lens : \A l \in Lens : y <= l
    BY <2>1, LeastOfSome
  <2> QED
    BY <2>2 DEF Lens
<1>6. ASSUME NEW x \in Around, x # <<>>
      PROVE  Front(x) \in DOMAIN frames /\ Front(x) \in Above(p) /\ Len(Front(x)) = Len(x) - 1
  <2>1. frames[x].at # "rejected"
    <3>1. x = p \/ (x \in Above(p) /\ Inside(x))
      BY <1>6
    <3>2. x \in Above(p) => Len(x) >= Len(x)
      BY <1>1, <1>4, PathTypes
    <3> QED
      BY <3>1, <3>2
  <2>2. x \in DOMAIN frames /\ x \in Seq(Nat)
    BY <1>4
  <2>3. Front(x) \in DOMAIN frames
    BY <1>1, <1>6, <2>1, <2>2 DEF TreeOK
  <2>4. Front(x) \in Seq(Nat) /\ Over(Front(x), x) /\ Len(Front(x)) = Len(x) - 1
    BY <1>6, <2>2, OverFront
  <2>5. x = p \/ Over(x, p)
    BY <1>2
  <2>6. Over(Front(x), p)
    BY <1>1, <2>2, <2>4, <2>5, OverTransitive
  <2> QED
    BY <1>2, <2>3, <2>4, <2>6
<1>7. ASSUME q # <<>> PROVE frames[Front(q)].at # "object"
  <2> DEFINE a == Front(q)
  <2>1. a \in Above(p) /\ Len(a) = Len(q) - 1
    BY <1>6, <1>7
  <2>2. q \in Seq(Nat) /\ Len(q) \in Nat /\ a \in Seq(Nat)
    BY <1>1, <1>2, <1>4, <2>1, PathTypes
  <2> HIDE DEF a
  <2>3. ASSUME frames[a].at = "object" PROVE FALSE
    <3>1. ASSUME NEW s \in Above(p), Len(s) >= Len(a) PROVE frames[s].at = "object"
      <4>1. s \in Seq(Nat) /\ Len(s) \in Nat /\ Over(s, p) /\ Over(a, p)
        BY <1>1, <1>2, <2>1, PathTypes
      <4>2. CASE Len(s) >= Len(q)
        BY <4>2
      <4>3. CASE Len(s) = Len(a)
        <5>1. s = a
          <6>1. Over(a, s) \/ a = s \/ Over(s, a)
            BY <1>2, <2>2, <4>1, OverCompares, CallTypes
          <6>2. ~Over(a, s) /\ ~Over(s, a)
            BY <2>2, <4>1, <4>3 DEF Over
          <6> QED
            BY <6>1, <6>2
        <5> QED
          BY <2>3, <5>1
      <4> QED
        BY <2>1, <2>2, <3>1, <4>1, <4>2, <4>3
    <3>2. a \in Around
      BY <2>1, <3>1
    <3>3. Len(q) <= Len(a)
      BY <1>5, <3>2
    <3> QED
      BY <2>1, <2>2, <3>3
  <2> QED
    BY <2>3 DEF a
<1> DEFINE o == Outer(p)
<1>8. /\ o \in Above(p) \cup {p}
      /\ \A s \in Above(p) : Len(s) >= Len(o) => frames[s].at = "object"
      /\ o # <<>> => frames[Front(o)].at # "object"
  <2>1. \E x \in Above(p) \cup {p} :
           /\ \A s \in Above(p) : Len(s) >= Len(x) => frames[s].at = "object"
           /\ x # <<>> => frames[Front(x)].at # "object"
    BY <1>7
  <2> QED
    BY <2>1 DEF Outer
<1> HIDE DEF o
<1>9. o \in Around
  BY <1>8
<1>10. o # <<>> => Front(o) \in DOMAIN frames
  BY <1>6, <1>9
<1>11. o \in DOMAIN frames /\ (o = p \/ Over(o, p))
  BY <1>2, <1>8
<1>12. \A s \in DOMAIN frames : Over(s, p) /\ Len(s) >= Len(o) => frames[s].at = "object"
  BY <1>2, <1>8
<1> QED
  BY <1>8, <1>10, <1>11, <1>12 DEF o

\* A command whose failure is to abort everything is where that begins.
LEMMA CommandDoom ==
    ASSUME CallsInv, NEW p \in DOMAIN frames, CommandEnds(p), Aborts(p),
           frames'[p].at = "returned", frames'[p].result.code # 0
    PROVE  Doomed(frames', p)
<1>1. Acted(frames, frames', p, {}) /\ frames[p].at = "command"
  BY CommandEndsActs
<1>2. TreeOK(frames) /\ DOMAIN frames \subseteq Seq(Nat) /\ p \in Seq(Nat)
  BY CallTypes
<1> DEFINE q == Outer(p)
           a == Front(q)
<1>3. /\ q \in DOMAIN frames /\ (q = p \/ Over(q, p)) /\ q # <<>>
      /\ \A s \in DOMAIN frames : Over(s, p) /\ Len(s) >= Len(q) => frames[s].at = "object"
      /\ a \in DOMAIN frames /\ frames[a].at # "object"
  BY <1>1, OuterShows DEF Aborts
<1>4. \A s \in DOMAIN frames : Over(s, p) => frames[s].at \notin {"attempt", "recover"}
  BY <1>2, OverIsStrictPrefix DEF Aborts, Above
<1>5. \/ frames[q].cfg.failure = "root" \/ frames[a].cfg.failure = "root"
      \/ frames[a].root /\ frames[a].at = "steps" /\ Len(frames[a].cfg.kids) = 1
  BY DEF Aborts
<1>6. a \in Seq(Nat) /\ Over(a, q)
  BY <1>2, <1>3, OverFront
<1> HIDE DEF q
<1>7. a = Front(q)
  OBVIOUS
<1> HIDE DEF a
<1>8. Over(a, p)
  BY <1>2, <1>3, <1>6, OverTransitive
<1>9. frames[a].at \in {"steps", "branches", "rejected"}
  <2>1. WaitsFor(frames[a], Way(a, p))
    BY <1>2, <1>3, <1>8 DEF TreeOK, WayOK
  <2> QED
    BY <1>3, <1>4, <1>8, <2>1 DEF WaitsFor
<1>10. \A s \in DOMAIN frames' : s \in DOMAIN frames /\ (Over(s, p) => frames'[s] = frames[s])
  BY <1>1, <1>2, OverIsLess DEF Acted
<1>11. /\ p \in DOMAIN frames' /\ q \in DOMAIN frames' /\ a \in DOMAIN frames'
       /\ frames'[a] = frames[a]
  <2>1. a # p
    BY <1>2, <1>6, <1>8, OverIsLess
  <2> QED
    BY <1>1, <1>3, <2>1 DEF Acted
<1>12. frames'[q].cfg.failure = frames[q].cfg.failure
  BY <1>1, <1>3, <1>10, <1>11 DEF Acted
<1>13. \A s \in DOMAIN frames' :
          /\ Over(s, p) => frames'[s].at \notin {"attempt", "recover"}
          /\ Over(s, p) /\ Len(s) >= Len(q) => frames'[s].at = "object"
  BY <1>3, <1>4, <1>10
<1>14. MarkedBy(frames', p, q)
  BY <1>3, <1>5, <1>7, <1>9, <1>11, <1>12, <1>13 DEF MarkedBy
<1>15. ReturnsFailure(frames', p)
  BY <1>11, <1>14 DEF ReturnsFailure
<1>16. DoomedAt(frames', p, p)
  BY <1>11, <1>13, <1>15 DEF DoomedAt
<1> QED
  BY <1>11, <1>16 DEF Doomed

\* Only a command that ends makes a failure that is to abort everything, and
\* only a rejection or the end gives the tool its result.
LEMMA OthersUnchanged ==
    ASSUME NEW p,
           \/ Skip(p) \/ Repeat(p) \/ Attempt(p) \/ Unwrap(p) \/ StartCommand(p)
           \/ StartBranches(p) \/ StartSteps(p) \/ Unwrapped(p) \/ AttemptReturns(p)
           \/ RecoveryReturns(p) \/ BranchReturns(p) \/ Join(p) \/ StepReturns(p)
    PROVE  final' = final /\ fatal' = fatal
BY DEF Skip, Repeat, Attempt, Unwrap, StartCommand, StartBranches, StartSteps, Unwrapped,
       AttemptReturns, RecoveryReturns, BranchReturns, Join, StepReturns, Go

LEMMA BeginningDoom ==
    ASSUME CallsInv, NEW p \in DOMAIN frames,
           \/ Skip(p) \/ Repeat(p) \/ Attempt(p) \/ Unwrap(p) \/ StartCommand(p)
           \/ StartBranches(p) \/ StartSteps(p),
           NEW f, Doomed(frames, f)
    PROVE  Doomed(frames', f)
<1>1. frames[p].at = "called"
  BY DEF Skip, Repeat, Attempt, Unwrap, StartCommand, StartBranches, StartSteps, RunsPlain,
         RunsOnce, Runs, Begins, Waits
<1>2. \E N : Acted(frames, frames', p, N)
  BY SkipActs, RepeatActs, AttemptActs, UnwrapActs, StartCommandActs, StartStepsActs,
     StartBranchesActs, Zenon
<1> QED
  BY <1>1, <1>2, DoomQuiet

LEMMA DoomInvNext ==
    ASSUME CallsInv, DoomInv, [ExecutionNext]_executionVars PROVE DoomInv'
<1> SUFFICES ASSUME NEW f \in fatal' PROVE f \in Seq(Nat) /\ Doomed(frames', f)
  BY DEF DoomInv
<1>1. \A x \in fatal : x \in Seq(Nat) /\ Doomed(frames, x)
  BY DEF DoomInv
<1>2. ASSUME NEW p \in DOMAIN frames,
             \/ Skip(p) \/ Repeat(p) \/ Attempt(p) \/ Unwrap(p) \/ StartCommand(p)
             \/ StartBranches(p) \/ StartSteps(p)
      PROVE  f \in Seq(Nat) /\ Doomed(frames', f)
  <2>1. fatal' = fatal
    BY <1>2, OthersUnchanged
  <2>2. f \in Seq(Nat) /\ Doomed(frames, f)
    BY <1>1, <2>1
  <2> QED
    BY <1>2, <2>2, BeginningDoom
<1>3. ASSUME NEW p \in DOMAIN frames, CannotRun(p)
      PROVE  f \in Seq(Nat) /\ Doomed(frames', f)
  <2>1. frames[p].at = "called" /\ Throw(p) /\ fatal' = fatal
    BY <1>3 DEF CannotRun, Throw, RunsPlain, RunsOnce, Runs, Begins, Waits
  <2> QED
    BY <1>1, <2>1, ThrowDoom
<1>4. ASSUME NEW p \in DOMAIN frames, CommandEnds(p)
      PROVE  f \in Seq(Nat) /\ Doomed(frames', f)
  <2>1. /\ Acted(frames, frames', p, {}) /\ frames[p].at = "command"
        /\ \/ fatal' = fatal
           \/ /\ fatal' = fatal \cup {p} /\ Aborts(p)
              /\ frames'[p].at = "returned" /\ frames'[p].result.code # 0
    BY <1>4, CommandEndsActs
  <2>2. CASE f \in fatal
    BY <1>1, <2>1, <2>2, DoomQuiet
  <2>3. CASE f \notin fatal
    <3>1. f = p /\ Aborts(p) /\ frames'[p].at = "returned" /\ frames'[p].result.code # 0
      BY <2>1, <2>3
    <3> QED
      BY <1>4, <3>1, CallTypes, CommandDoom
  <2> QED
    BY <2>2, <2>3
<1>5. ASSUME NEW p \in DOMAIN frames,
             \/ Unwrapped(p) \/ AttemptReturns(p) \/ RecoveryReturns(p)
             \/ BranchReturns(p) \/ Join(p) \/ StepReturns(p)
      PROVE  f \in Seq(Nat) /\ Doomed(frames', f)
  <2>1. fatal' = fatal
    BY <1>5, OthersUnchanged
  <2>2. f \in Seq(Nat) /\ Doomed(frames, f)
    BY <1>1, <2>1
  <2>3. CASE AttemptReturns(p) \/ RecoveryReturns(p)
    <3>1. frames[p].at \in {"attempt", "recover"} /\ \E N : Acted(frames, frames', p, N)
      BY <2>3, AttemptReturnsActs, RecoveryReturnsActs
    <3> QED
      BY <2>2, <3>1, DoomRetried
  <2> QED
    BY <1>5, <2>2, <2>3, UnwrappedDoom, BranchReturnsDoom, JoinDoom, StepReturnsDoom
<1>6. CASE Finish
  <2>1. fatal' = fatal /\ DOMAIN frames' = {}
    BY <1>6, FinishTree DEF Finish
  <2> QED
    BY <1>1, <2>1 DEF Doomed
<1>7. CASE UNCHANGED executionVars
  <2>1. fatal' = fatal /\ frames' = frames
    BY <1>7 DEF executionVars
  <2> QED
    BY <1>1, <2>1
<1> QED
  BY <1>2, <1>3, <1>4, <1>5, <1>6, <1>7, Zenon DEF ExecutionNext

LEMMA ThrownFails == Thrown.code # 0 /\ Thrown # NoExecution
<1>1. Thrown.code = 1 /\ NoExecution.code = -1
  BY DEF Thrown, Execution, NoExecution, Unset
<1> QED
  BY <1>1

LEMMA FinalInvNext ==
    ASSUME CallsInv, DoomInv, FinalInv, [ExecutionNext]_executionVars PROVE FinalInv'
<1>1. TreeOK(frames) /\ DOMAIN frames \subseteq Seq(Nat)
  BY DEF CallsInv, TreeInv, FramesInv, AllOK
<1>2. ASSUME NEW p \in DOMAIN frames, NEW N, Acted(frames, frames', p, N), final' = final
      PROVE  FinalInv'
  <2> SUFFICES ASSUME final # NoExecution
               PROVE  /\ <<>> \in DOMAIN frames' => frames'[<<>>].at = "rejected"
                      /\ final.code # 0
    BY <1>2 DEF FinalInv
  <2>1. final.code # 0
    BY DEF FinalInv
  <2>2. ASSUME <<>> \in DOMAIN frames' PROVE frames'[<<>>].at = "rejected"
    <3>1. <<>> \notin N
      BY <1>1, <1>2, PartsBelow
    <3>2. <<>> \in DOMAIN frames
      BY <1>2, <2>2, <3>1 DEF Acted
    <3>3. frames[<<>>].at = "rejected"
      BY <3>2 DEF FinalInv
    <3> QED
      BY <1>2, <3>1, <3>2, <3>3 DEF Acted
  <2> QED
    BY <2>1, <2>2
<1>3. ASSUME NEW p \in DOMAIN frames, CannotRun(p) PROVE FinalInv'
  <2>1. frames[p].at = "called" /\ Throw(p)
    BY <1>3 DEF CannotRun, RunsPlain, RunsOnce, Runs, Begins, Waits
  <2>2. final' = IF final = NoExecution THEN Thrown ELSE final
    BY <2>1 DEF Throw
  <2>3. final'.code # 0
    <3>1. CASE final = NoExecution
      BY <2>2, <3>1, ThrownFails
    <3>2. CASE final # NoExecution
      BY <2>2, <3>2 DEF FinalInv
    <3> QED
      BY <3>1, <3>2
  <2>4. ASSUME <<>> \in DOMAIN frames' PROVE frames'[<<>>].at = "rejected"
    <3>1. <<>> # p /\ (Over(<<>>, p) => frames'[<<>>].at = "rejected")
      BY <2>1, <2>4, ThrowActs
    <3> QED
      BY <1>1, <3>1, OverRoot
  <2> QED
    BY <2>3, <2>4 DEF FinalInv
<1>4. CASE Finish
  <2>1. /\ <<>> \in DOMAIN frames /\ frames[<<>>].at = "returned"
        /\ final' = frames[<<>>].result /\ fatal' = fatal
    BY <1>4 DEF Finish, Waits
  <2>2. DOMAIN frames' = {}
    BY <1>4, FinishTree
  <2>3. \A x \in DOMAIN frames : x = <<>>
    BY <1>1, <2>1, OverRoot, NothingBelow
  <2>4. ASSUME NEW f \in fatal PROVE final'.code # 0
    <3>1. PICK r \in DOMAIN frames : DoomedAt(frames, f, r)
      BY <2>1 DEF DoomInv, Doomed
    <3>2. r = <<>>
      BY <2>3
    <3> QED
      BY <2>1, <3>1, <3>2 DEF DoomedAt, ReturnsFailure, HoldsFailure
  <2> QED
    BY <2>1, <2>2, <2>4 DEF FinalInv
<1>5. CASE UNCHANGED executionVars
  BY <1>5 DEF executionVars, FinalInv
<1>6. ASSUME NEW p \in DOMAIN frames,
             \/ Skip(p) \/ Repeat(p) \/ Attempt(p) \/ Unwrap(p) \/ StartCommand(p)
             \/ StartBranches(p) \/ StartSteps(p) \/ CommandEnds(p)
             \/ Unwrapped(p) \/ AttemptReturns(p)
             \/ RecoveryReturns(p) \/ BranchReturns(p) \/ Join(p) \/ StepReturns(p)
      PROVE  FinalInv'
  <2>1. \E N : Acted(frames, frames', p, N)
    BY <1>6, SkipActs, RepeatActs, AttemptActs, UnwrapActs, StartCommandActs,
       StartStepsActs, StartBranchesActs, CommandEndsActs, UnwrappedActs, AttemptReturnsActs,
       RecoveryReturnsActs, BranchReturnsActs, JoinActs, StepReturnsActs, Zenon
  <2>2. final' = final
    BY <1>6, OthersUnchanged, CommandEndsActs, Zenon
  <2> QED
    BY <1>2, <2>1, <2>2
<1> QED
  BY <1>3, <1>4, <1>5, <1>6, Zenon DEF ExecutionNext

-----------------------------------------------------------------------------
(* What the execution promises of such a failure.                          *)

\* The inductive invariant.
ExecutionInv == CallsInv /\ DoomInv /\ FinalInv

LEMMA ExecutionInvInit ==
    ASSUME ExecutionInit PROVE ExecutionInv
<1>1. final = NoExecution /\ fatal = {}
  BY DEF ExecutionInit
<1> QED
  BY <1>1, FramesInvInit, TreeInit DEF ExecutionInv, CallsInv, TreeInv, DoomInv, FinalInv

LEMMA ExecutionInvNext ==
    ASSUME ExecutionInv, [ExecutionNext]_executionVars PROVE ExecutionInv'
<1>1. FramesInv'
  BY FramesInvNext DEF ExecutionInv, CallsInv
<1>2. TreeInv'
  BY TreeInvNext DEF ExecutionInv, TreeInv
<1>3. DoomInv' /\ FinalInv'
  BY DoomInvNext, FinalInvNext DEF ExecutionInv
<1> QED
  BY <1>1, <1>2, <1>3 DEF ExecutionInv, CallsInv

\* The calls hang together as a tree, every call above another waits for the
\* part that leads to it, and every failure that is to abort everything is on
\* its way up (executeTemplateConfig and what it calls, lib/execution.ts).
THEOREM CallsHangTogether == ExecutionSpec => []ExecutionInv
<1>1. ExecutionInit => ExecutionInv
  BY ExecutionInvInit
<1>2. ExecutionInv /\ [ExecutionNext]_executionVars => ExecutionInv'
  BY ExecutionInvNext
<1> QED
  BY <1>1, <1>2, PTL DEF ExecutionSpec

\* A command whose failure is to abort everything makes the tool fail, however
\* deep in the template it is (the scopes of steps and branches,
\* lib/execution.ts; docs/command-templates.md, Failure Propagation).
THEOREM FailuresAreFatal == ExecutionSpec => []RootFailureIsFatal
<1>1. ExecutionInv => RootFailureIsFatal
  BY DEF ExecutionInv, FinalInv, RootFailureIsFatal
<1> QED
  BY <1>1, CallsHangTogether, PTL

\* The prefix two paths share is over no other that they share.
LEMMA LongestMeet ==
    ASSUME NEW p \in Seq(Nat), NEW q \in Seq(Nat)
    PROVE  LET m == Meet(p, q) IN
           /\ m \in Seq(Nat) /\ (m = p \/ Over(m, p)) /\ (m = q \/ Over(m, q))
           /\ \A x \in Seq(Nat) : (x = p \/ Over(x, p)) /\ (x = q \/ Over(x, q)) =>
                 Len(x) <= Len(m)
<1> DEFINE C == CommonPrefixes({p, q})
           Rest == {Len(p) - Len(x) : x \in C}
<1>1. ASSUME NEW x \in C PROVE x \in Seq(Nat)
  <2>1. PICK t \in {p, q} : \E l \in 0..Len(t) : x = SubSeq(t, 1, l)
    BY DEF CommonPrefixes, Prefixes
  <2>2. t \in Seq(Nat) /\ Len(t) \in Nat
    BY PathTypes
  <2> PICK l \in 0..Len(t) : x = SubSeq(t, 1, l)
    BY <2>1
  <2>3. l \in Nat /\ \A j \in 1..l : t[j] \in Nat
    BY <2>2, PathTypes
  <2> QED
    BY <2>1, <2>3, SubSeqProperties
<1>2. \A x \in C : (x = p \/ Over(x, p)) /\ (x = q \/ Over(x, q))
  <2>1. \A x \in C : IsPrefix(x, p) /\ IsPrefix(x, q)
    BY DEF CommonPrefixes
  <2> HIDE DEF C
  <2> QED
    BY <1>1, <2>1, OverIsStrictPrefix
<1>3. ASSUME NEW x \in Seq(Nat), x = p \/ Over(x, p), x = q \/ Over(x, q) PROVE x \in C
  <2>1. IsPrefix(x, p) /\ IsPrefix(x, q)
    BY <1>3, OverIsStrictPrefix
  <2>2. Len(x) \in 0..Len(p) /\ x = SubSeq(p, 1, Len(x))
    BY <2>1, PathTypes, SubSeqFull DEF IsPrefix
  <2>3. x \in Prefixes(p)
    BY <2>2 DEF Prefixes
  <2> QED
    BY <2>1, <2>3 DEF CommonPrefixes
<1>4. <<>> \in C
  BY <1>3, OverRoot, EmptySeq
<1>5. Meet(p, q) = CHOOSE m \in C : \A x \in C : Len(x) <= Len(m)
  BY DEF Meet, LongestCommonPrefix
<1> HIDE DEF C
<1>6. \A x \in C : Len(x) \in Nat /\ Len(p) \in Nat /\ Len(x) <= Len(p)
  <2> SUFFICES ASSUME NEW x \in C PROVE Len(x) \in Nat /\ Len(p) \in Nat /\ Len(x) <= Len(p)
    OBVIOUS
  <2>1. Len(x) \in Nat /\ Len(p) \in Nat
    BY <1>1, PathTypes
  <2>2. x = p \/ Len(x) < Len(p)
    BY <1>2 DEF Over
  <2> QED
    BY <2>1, <2>2
<1>7. PICK m \in C : \A x \in C : Len(x) <= Len(m)
  <2>1. Rest \subseteq Nat /\ Rest # {}
    BY <1>4, <1>6
  <2>2. PICK n \in Rest : \A l \in Rest : n <= l
    <3> HIDE DEF Rest
    <3> QED
      BY <2>1, LeastOfSome
  <2>3. PICK m \in C : n = Len(p) - Len(m)
    OBVIOUS
  <2>4. \A x \in C : Len(p) - Len(m) <= Len(p) - Len(x)
    BY <2>2, <2>3
  <2>5. \A x \in C : Len(x) <= Len(m)
    BY <1>6, <2>4
  <2> QED
    BY <2>5
<1>8. Meet(p, q) \in C /\ \A x \in C : Len(x) <= Len(Meet(p, q))
  BY <1>5, <1>7
<1> QED
  BY <1>1, <1>2, <1>3, <1>8

\* No call begins under a failure that is to abort everything.
LEMMA DoomStops ==
    ASSUME CallsInv, NEW p \in DOMAIN frames, frames[p].at = "called",
           NEW f \in Seq(Nat), Doomed(frames, f), Meet(p, f) \in DOMAIN frames
    PROVE  frames[Meet(p, f)].at \in Parallel
<1> DEFINE m == Meet(p, f)
<1>1. TreeOK(frames) /\ DOMAIN frames \subseteq Seq(Nat) /\ p \in Seq(Nat)
  BY CallTypes
<1>2. /\ m \in Seq(Nat) /\ (m = p \/ Over(m, p)) /\ (m = f \/ Over(m, f))
      /\ \A x \in Seq(Nat) : (x = p \/ Over(x, p)) /\ (x = f \/ Over(x, f)) => Len(x) <= Len(m)
  BY <1>1, LongestMeet
<1> HIDE DEF m
<1>3. PICK r \in DOMAIN frames : DoomedAt(frames, f, r)
  BY DEF Doomed
<1>4. r \in Seq(Nat) /\ (r = f \/ Over(r, f)) /\ r # p
  BY <1>1, <1>3 DEF DoomedAt, ReturnsFailure, HoldsFailure
<1>5. ASSUME Over(r, m) PROVE FALSE
  <2>1. Over(r, p) /\ Way(r, p) = Way(r, m) /\ Way(r, f) = Way(r, m)
    BY <1>1, <1>2, <1>4, <1>5, OverTransitive
  <2>2. WaitsFor(frames[r], Way(r, f))
    BY <1>1, <2>1 DEF TreeOK, WayOK
  <2>3. HoldsFailure(frames, r, f)
    BY <1>1, <1>3, <2>1, NothingBelow DEF DoomedAt, ReturnsFailure
  <2> QED
    BY <2>2, <2>3 DEF HoldsFailure, WaitsFor
<1>6. CASE m = p
  <2>1. ~Over(p, r)
    BY <1>1, NothingBelow
  <2>2. Over(r, p)
    BY <1>1, <1>2, <1>4, <1>6, <2>1, OverCompares
  <2> QED
    BY <1>5, <1>6, <2>2
<1>7. CASE Over(m, p)
  <2>1. m \in DOMAIN frames
    BY DEF m
  <2>2. CASE r = m
    <3>1. frames[r].at # "returned"
      BY <1>1, <1>7, <2>2, NothingBelow
    <3> QED
      BY <1>3, <2>2, <3>1 DEF DoomedAt, ReturnsFailure, HoldsFailure, Parallel, m
  <2>3. CASE Over(m, r)
    <3>1. WaitsFor(frames[m], Way(m, p)) /\ WaitsFor(frames[m], Way(m, r))
      BY <1>1, <1>7, <2>1, <2>3 DEF TreeOK, WayOK
    <3>2. Over(m, f) /\ Way(m, f) = Way(m, r)
      BY <1>2, <1>4, <2>3, OverTransitive
    <3>3. Way(m, p) # Way(m, f)
      <4> DEFINE c == Append(m, Way(m, p))
      <4>1. c \in Seq(Nat) /\ (c = p \/ Over(c, p))
        BY <1>1, <1>2, <1>7, OverStep
      <4>2. Len(c) = Len(m) + 1 /\ Len(m) \in Nat
        BY <1>1, <1>2, <1>7, OverIsLess, OverAppend
      <4>3. ASSUME Way(m, p) = Way(m, f) PROVE c = f \/ Over(c, f)
        BY <1>2, <3>2, <4>3, OverStep
      <4> HIDE DEF c
      <4> QED
        BY <1>2, <4>1, <4>2, <4>3
    <3> QED
      BY <3>1, <3>2, <3>3 DEF WaitsFor, Parallel, m
  <2>4. r = m \/ Over(m, r) \/ Over(r, m)
    BY <1>2, <1>4, OverCompares
  <2> QED
    BY <1>5, <2>2, <2>3, <2>4
<1> QED
  BY <1>2, <1>6, <1>7

\* A command starts where a call was made before.
LEMMA StartsCalled ==
    ASSUME CallsInv, ExecutionNext, NEW p \in DOMAIN frames', frames'[p].at = "command",
           ~Waits(p, "command")
    PROVE  p \in DOMAIN frames /\ frames[p].at = "called"
<1>1. ~(p \in DOMAIN frames /\ frames[p].at = "command")
  BY DEF Waits
<1>2. ASSUME NEW q \in DOMAIN frames, NEW N, Acted(frames, frames', q, N)
      PROVE  p \in DOMAIN frames /\ frames[p].at = "called"
  <2>1. p \notin N
    BY <1>2 DEF Acted
  <2>2. p \in DOMAIN frames /\ (p # q => frames'[p] = frames[p])
    BY <1>2, <2>1 DEF Acted
  <2> QED
    BY <1>1, <1>2, <2>2 DEF Acted
<1>3. ASSUME NEW q \in DOMAIN frames, frames[q].at = "called", Throw(q)
      PROVE  p \in DOMAIN frames /\ frames[p].at = "called"
  BY <1>1, <1>3, ThrowActs
<1>4. CASE Finish
  BY <1>4, FinishTree
<1> QED
  BY <1>2, <1>3, <1>4, EveryAction

\* After such a failure no command starts but in the branches that run beside
\* it: whatever had not begun never does (the returns of executeTemplateConfig
\* on a scope of root, mapConcurrent, lib/execution.ts).
THEOREM FailuresStop == ExecutionSpec => FatalStops
<1>1. ASSUME ExecutionInv, [ExecutionNext]_executionVars
      PROVE  [\A p \in DOMAIN frames', f \in fatal :
                 frames'[p].at = "command" /\ ~Waits(p, "command") =>
                     LET m == Meet(p, f) IN
                     m \in DOMAIN frames =>
                         frames[m].at \in {"branches", "rejected"}]_executionVars
  <2>1. CASE UNCHANGED executionVars
    BY <2>1
  <2>2. ASSUME ExecutionNext, NEW p \in DOMAIN frames', NEW f \in fatal,
               frames'[p].at = "command", ~Waits(p, "command"), Meet(p, f) \in DOMAIN frames
        PROVE  frames[Meet(p, f)].at \in {"branches", "rejected"}
    <3>1. p \in DOMAIN frames /\ frames[p].at = "called"
      BY <1>1, <2>2, StartsCalled DEF ExecutionInv
    <3>2. f \in Seq(Nat) /\ Doomed(frames, f)
      BY <1>1, <2>2 DEF ExecutionInv, DoomInv
    <3> QED
      BY <1>1, <2>2, <3>1, <3>2, DoomStops DEF ExecutionInv, Parallel
  <2> QED
    BY <1>1, <2>1, <2>2
<1> QED
  BY <1>1, CallsHangTogether, PTL DEF ExecutionSpec, FatalStops
=============================================================================
