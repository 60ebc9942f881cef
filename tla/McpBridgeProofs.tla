---- MODULE McpBridgeProofs ----
(* Proofs about the Codex MCP adapter: its bindings and answers are true of  *)
(* the Harness's runs whatever one wrong reply says, and a correct Harness   *)
(* is only accused of a mismatch when a run moved.                           *)
EXTENDS McpBridge, SequenceTheorems, TLAPS

----------------------------------------------------------------------------
(* Sequences                                                                 *)

LEMMA RemoveAtProperties ==
    ASSUME NEW S, NEW s \in Seq(S), NEW k \in DOMAIN s
    PROVE  /\ RemoveAt(s, k) \in Seq(S) /\ Len(RemoveAt(s, k)) = Len(s) - 1
           /\ \A i \in 1 .. Len(s) - 1 : RemoveAt(s, k)[i] = IF i < k THEN s[i] ELSE s[i + 1]
<1> DEFINE a == SubSeq(s, 1, k - 1)
           b == SubSeq(s, k + 1, Len(s))
<1>0. Len(s) \in Nat /\ k \in 1 .. Len(s) /\ RemoveAt(s, k) = a \o b
  BY DEF RemoveAt
<1>1. a \in Seq(S) /\ Len(a) = k - 1 /\ \A i \in 1 .. k - 1 : a[i] = s[i]
  BY <1>0, SubSeqProperties
<1>2. b \in Seq(S) /\ Len(b) = Len(s) - k /\ \A i \in 1 .. Len(s) - k : b[i] = s[k + i]
  BY <1>0, SubSeqProperties
<1>3. /\ a \o b \in Seq(S) /\ Len(a \o b) = Len(a) + Len(b)
      /\ \A i \in 1 .. Len(a) + Len(b) : (a \o b)[i] = IF i <= Len(a) THEN a[i] ELSE b[i - Len(a)]
  <2> HIDE DEF a, b
  <2> QED BY <1>1, <1>2, ConcatProperties
<1> HIDE DEF a, b
<1>4. Len(a) + Len(b) = Len(s) - 1
  BY <1>0, <1>1, <1>2
<1>5. ASSUME NEW i \in 1 .. Len(s) - 1 PROVE (a \o b)[i] = IF i < k THEN s[i] ELSE s[i + 1]
  <2>1. CASE i < k
    BY <1>0, <1>1, <1>3, <1>4, <2>1
  <2>2. CASE ~ (i < k)
    <3>1. i - (k - 1) \in 1 .. Len(s) - k /\ k + (i - (k - 1)) = i + 1
      BY <1>0, <2>2
    <3>2. (a \o b)[i] = b[i - (k - 1)]
      BY <1>0, <1>1, <1>3, <1>4, <2>2
    <3> QED BY <1>2, <2>2, <3>1, <3>2
  <2> QED BY <2>1, <2>2
<1> QED BY <1>0, <1>3, <1>4, <1>5

----------------------------------------------------------------------------
(* The inductive invariant                                                   *)

RunStates == {"absent", "active", "completed", "failed", "purged"}
BindingRecord == [id : Runs, plan : Selections, team : Selections]
Kinds == Reads \cup {"create", "catalog", "validate", "task"}
Heard == {NoAnswer} \cup [kind : {"run"}, plan : Selections, state : RunStates]
Docs ==
    {NoAnswer} \cup [kind : {"detail"}, plan : Selections, state : RunStates]
        \cup [kind : {"quality"}, passed : BOOLEAN] \cup [kind : {"team"}, team : Selections]
CallRecord ==
    [tool : Tools, id : Runs \cup {NoRun}, want : Selections, todo : Seq(Kinds), known : BOOLEAN,
     spent : Nat, moved : BOOLEAN, run : Heard, doc : Docs]

BridgeTypes ==
    /\ run \in [Runs -> [state : RunStates, plan : Selections]]
    /\ wrong \in 0 .. MaxWrong
    /\ call = NoCall \/ call \in CallRecord

\* The LRU holds one binding for a run, and no more bindings than its limit.
LruKept ==
    /\ bindings \in Seq(BindingRecord) /\ Len(bindings) <= MaxRunBindings
    /\ \A i, j \in 1 .. Len(bindings) : bindings[i].id = bindings[j].id => i = j

\* A binding is about a run that was created, and true of it.
TrueBinding(b) ==
    wrong <= 1 => /\ run[b.id].state # "absent" /\ b.plan = run[b.id].plan
                  /\ wrong = 0 => b.team = run[b.id].plan

BindingsHold == \A i \in 1 .. Len(bindings) : TrueBinding(bindings[i])

\* How far a call is, and what it has heard by then.
Fresh(c) == c.run = NoAnswer /\ c.doc = NoAnswer
Passing(c) ==
    /\ c.tool \in {"catalog", "propose"} /\ c.id = NoRun /\ Fresh(c)
    /\ \A i \in 1 .. Len(c.todo) : c.todo[i] \in {"catalog", "validate", "task"}
Proposing(c) ==
    /\ c.tool \in {"start", "delegate"} /\ c.id = NoRun /\ ~ c.known /\ Fresh(c)
    /\ c.todo \in {<<"catalog", "validate", "task", "create", "team">>,
                   <<"validate", "task", "create", "team">>, <<"task", "create", "team">>,
                   <<"create", "team">>}
Starting(c) ==
    /\ c.tool \in {"start", "delegate"} /\ c.id \in Runs /\ ~ c.known
    /\ c.run # NoAnswer /\ c.doc = NoAnswer /\ c.todo = <<"team">>
Rebuilding(c) ==
    /\ c.tool \in Reads /\ c.id \in Runs /\ ~ c.known /\ c.doc = NoAnswer
    /\ \/ c.tool \in {"run", "team"} /\ c.run = NoAnswer /\ c.todo = <<"run", "team">>
       \/ c.tool \in {"run", "team"} /\ c.run # NoAnswer /\ c.todo = <<"team">>
       \/ c.tool \notin {"run", "team"} /\ c.run = NoAnswer /\ c.todo = <<"run", "team", c.tool>>
       \/ c.tool \notin {"run", "team"} /\ c.run # NoAnswer /\ c.todo = <<"team", c.tool>>
Reading(c) ==
    /\ c.tool \in Reads /\ c.id \in Runs /\ c.known
    /\ \/ c.tool = "run" /\ Fresh(c) /\ c.todo = <<"run">>
       \/ c.tool \in {"team", "detail", "quality"} /\ Fresh(c) /\ c.todo = <<c.tool, "run">>
       \/ c.tool \in {"team", "detail", "quality"} /\ c.run = NoAnswer /\ c.doc.kind = c.tool
          /\ c.todo = <<"run">>
       \/ c.tool = "artifact" /\ Fresh(c) /\ c.todo = <<"run", "artifact">>
       \/ c.tool \in {"artifact", "detail", "quality"} /\ c.run # NoAnswer
          /\ c.doc.kind \in {"none", "team"} /\ c.todo = <<c.tool>>
Staged(c) == Passing(c) \/ Proposing(c) \/ Starting(c) \/ Rebuilding(c) \/ Reading(c)

\* What a call has heard from a correct Harness was true and, while the run has
\* not moved, still is.
RunHeard(c, runs) ==
    c.run # NoAnswer =>
        /\ runs[c.id].state # "absent" /\ c.run.plan = runs[c.id].plan
        /\ ~ c.moved => c.run.state = runs[c.id].state
        /\ c.run.state = "completed" => runs[c.id].state \in {"completed", "purged"}
        /\ c.tool \in {"start", "delegate"} => runs[c.id].plan = c.want
DocHeard(c, runs) ==
    /\ c.doc.kind = "detail" =>
           /\ c.doc.plan = runs[c.id].plan
           /\ ~ c.moved => c.doc.state = runs[c.id].state
    /\ c.doc.kind = "quality" =>
           /\ ~ c.moved => (c.doc.passed <=> runs[c.id].state = "completed")
           /\ c.doc.passed => runs[c.id].state \in {"completed", "purged"}
\* Once a second reply or a binding stands behind it, one wrong reply is not
\* enough to deceive.
Confirmed(c, runs) ==
    /\ c.known /\ c.run # NoAnswer => c.run.plan = runs[c.id].plan
    /\ c.known /\ c.tool \in {"start", "delegate"} => runs[c.id].plan = c.want
    /\ c.run # NoAnswer /\ c.run.state = "completed" /\ c.doc.kind = "quality" /\ c.doc.passed =>
           runs[c.id].state \in {"completed", "purged"}

HeardTrue(c, runs, w) ==
    /\ w = 0 => RunHeard(c, runs) /\ DocHeard(c, runs)
    /\ w <= 1 => Confirmed(c, runs)

CallHolds ==
    call # NoCall =>
        /\ call.todo # <<>> /\ Staged(call) /\ HeardTrue(call, run, wrong)
        /\ call.known => Bound(call.id)
        /\ answer = NoAnswer

BridgeInv ==
    /\ BridgeTypes /\ LruKept /\ BindingsHold /\ CallHolds
    /\ AnswersTrue /\ MismatchExplained

----------------------------------------------------------------------------
(* The LRU                                                                   *)

LEMMA PositionProperties ==
    ASSUME LruKept, NEW r, Bound(r)
    PROVE  Position(r) \in 1 .. Len(bindings) /\ Binding(r).id = r
<1>1. DOMAIN bindings = 1 .. Len(bindings)
  BY DEF LruKept
<1>2. PICK i \in DOMAIN bindings : bindings[i].id = r
  BY DEF Bound
<1>3. Position(r) \in DOMAIN bindings /\ bindings[Position(r)].id = r
  BY <1>2 DEF Position
<1> QED BY <1>1, <1>3 DEF Binding

LEMMA OthersProperties ==
    ASSUME LruKept, NEW r
    PROVE  /\ Others(r) \in Seq(BindingRecord) /\ Len(Others(r)) \in Nat
           /\ Len(Others(r)) <= Len(bindings)
           /\ Bound(r) => Len(Others(r)) = Len(bindings) - 1
           /\ \A i \in 1 .. Len(Others(r)) :
                 Others(r)[i].id # r /\ \E k \in 1 .. Len(bindings) : Others(r)[i] = bindings[k]
           /\ \A i, j \in 1 .. Len(Others(r)) : Others(r)[i].id = Others(r)[j].id => i = j
           /\ \A k \in 1 .. Len(bindings) :
                 bindings[k].id # r => \E i \in 1 .. Len(Others(r)) : Others(r)[i] = bindings[k]
<1>0. bindings \in Seq(BindingRecord) /\ Len(bindings) \in Nat /\ DOMAIN bindings = 1 .. Len(bindings)
  BY DEF LruKept
<1>1. CASE ~ Bound(r)
  <2>1. Others(r) = bindings
    BY <1>1 DEF Others
  <2>2. \A i \in 1 .. Len(bindings) : bindings[i].id # r
    BY <1>0, <1>1 DEF Bound
  <2>3. \A k \in 1 .. Len(bindings) : \E i \in 1 .. Len(bindings) : bindings[i] = bindings[k]
    OBVIOUS
  <2>4. \A i, j \in 1 .. Len(bindings) : bindings[i].id = bindings[j].id => i = j
    BY DEF LruKept
  <2>5. Len(Others(r)) \in Nat /\ Len(Others(r)) <= Len(bindings) /\ Others(r) \in Seq(BindingRecord)
    BY <1>0, <2>1
  <2> QED BY <1>1, <2>1, <2>2, <2>3, <2>4, <2>5, Zenon
<1>2. CASE Bound(r)
  <2> DEFINE o == Others(r)
             p == Position(r)
  <2>1. p \in 1 .. Len(bindings) /\ bindings[p].id = r
    BY <1>2, PositionProperties DEF Binding
  <2>2. o = RemoveAt(bindings, p)
    BY <1>2 DEF Others
  <2>3. /\ o \in Seq(BindingRecord) /\ Len(o) = Len(bindings) - 1
        /\ \A i \in 1 .. Len(bindings) - 1 : o[i] = IF i < p THEN bindings[i] ELSE bindings[i + 1]
    <3> HIDE DEF p
    <3> QED BY <1>0, <2>1, <2>2, RemoveAtProperties
  <2> HIDE DEF o, p
  <2>4. \A i, j \in 1 .. Len(bindings) : bindings[i].id = bindings[j].id => i = j
    BY DEF LruKept
  <2>5. ASSUME NEW i \in 1 .. Len(o)
        PROVE  o[i].id # r /\ \E k \in 1 .. Len(bindings) : o[i] = bindings[k]
    <3>1. CASE i < p
      BY <1>0, <2>1, <2>3, <2>4, <3>1
    <3>2. CASE ~ (i < p)
      <4>1. o[i] = bindings[i + 1] /\ i + 1 \in 1 .. Len(bindings) /\ i + 1 # p
        BY <1>0, <2>1, <2>3, <3>2
      <4> QED BY <2>1, <2>4, <4>1
    <3> QED BY <3>1, <3>2
  <2>6. ASSUME NEW i \in 1 .. Len(o), NEW j \in 1 .. Len(o), o[i].id = o[j].id
        PROVE  i = j
    <3> DEFINE up(n) == IF n < p THEN n ELSE n + 1
    <3>1. \A n \in 1 .. Len(o) : up(n) \in 1 .. Len(bindings) /\ o[n] = bindings[up(n)]
      BY <1>0, <2>1, <2>3
    <3>2. up(i) = up(j)
      BY <2>4, <2>6, <3>1
    <3> QED BY <1>0, <2>1, <2>3, <3>2
  <2>7. ASSUME NEW k \in 1 .. Len(bindings), bindings[k].id # r
        PROVE  \E i \in 1 .. Len(o) : o[i] = bindings[k]
    <3>1. CASE k < p
      BY <1>0, <2>1, <2>3, <3>1
    <3>2. CASE ~ (k < p)
      <4>1. k - 1 \in 1 .. Len(o) /\ ~ (k - 1 < p) /\ k - 1 + 1 = k
        BY <1>0, <2>1, <2>3, <2>7, <3>2
      <4> QED BY <2>3, <4>1
    <3> QED BY <3>1, <3>2
  <2> QED BY <1>0, <2>3, <2>5, <2>6, <2>7 DEF o
<1> QED BY <1>1, <1>2

\* A binding put at the end of the others leaves one binding for a run.
LEMMA AppendedProperties ==
    ASSUME LruKept, NEW b \in BindingRecord
    PROVE  LET all == Append(Others(b.id), b)
           IN  /\ all \in Seq(BindingRecord) /\ Len(all) = Len(Others(b.id)) + 1
               /\ all[Len(all)] = b
               /\ \A i \in 1 .. Len(all) - 1 : all[i] = Others(b.id)[i]
               /\ \A i, j \in 1 .. Len(all) : all[i].id = all[j].id => i = j
<1> DEFINE o == Others(b.id)
           all == Append(o, b)
<1>1. /\ o \in Seq(BindingRecord) /\ Len(o) \in Nat
      /\ \A i \in 1 .. Len(o) : o[i].id # b.id
      /\ \A i, j \in 1 .. Len(o) : o[i].id = o[j].id => i = j
  BY OthersProperties
<1>2. /\ all \in Seq(BindingRecord) /\ Len(all) = Len(o) + 1 /\ all[Len(o) + 1] = b
      /\ \A i \in 1 .. Len(o) : all[i] = o[i]
  <2> HIDE DEF o
  <2> QED BY <1>1, AppendProperties
<1> HIDE DEF o, all
<1>3. ASSUME NEW i \in 1 .. Len(all), NEW j \in 1 .. Len(all), all[i].id = all[j].id
      PROVE  i = j
  BY <1>1, <1>2, <1>3
<1> QED BY <1>1, <1>2, <1>3 DEF o, all

\* What a new LRU takes from the old one.
From(lru, b) ==
    /\ lru \in Seq(BindingRecord) /\ Len(lru) <= MaxRunBindings
    /\ \A i, j \in 1 .. Len(lru) : lru[i].id = lru[j].id => i = j
    /\ \A i \in 1 .. Len(lru) : lru[i] = b \/ \E k \in 1 .. Len(bindings) : lru[i] = bindings[k]
    /\ \E i \in DOMAIN lru : lru[i].id = b.id

LEMMA StoredProperties ==
    ASSUME LruKept, NEW b \in BindingRecord
    PROVE  From(Stored(b), b)
<1> DEFINE all == Append(Others(b.id), b)
           s == Stored(b)
<1>1. /\ all \in Seq(BindingRecord) /\ Len(all) = Len(Others(b.id)) + 1
      /\ all[Len(all)] = b
      /\ \A i \in 1 .. Len(all) - 1 : all[i] = Others(b.id)[i]
      /\ \A i, j \in 1 .. Len(all) : all[i].id = all[j].id => i = j
  BY AppendedProperties
<1>2. /\ Len(Others(b.id)) \in Nat /\ Len(Others(b.id)) <= Len(bindings)
      /\ \A i \in 1 .. Len(Others(b.id)) :
            \E k \in 1 .. Len(bindings) : Others(b.id)[i] = bindings[k]
  BY OthersProperties
<1>3. Len(bindings) \in Nat /\ Len(bindings) <= MaxRunBindings /\ MaxRunBindings \in Nat \ {0}
  BY BridgeAssumption DEF LruKept
<1>4. s = IF Len(all) > MaxRunBindings THEN Tail(all) ELSE all
  BY DEF Stored
<1> HIDE DEF all, s
<1>5. \A i \in 1 .. Len(all) : all[i] = b \/ \E k \in 1 .. Len(bindings) : all[i] = bindings[k]
  <2> TAKE i \in 1 .. Len(all)
  <2>1. CASE i = Len(all)
    BY <1>1, <2>1
  <2>2. CASE i # Len(all)
    <3>1. i \in 1 .. Len(all) - 1 /\ i \in 1 .. Len(Others(b.id))
      BY <1>1, <1>2, <2>2
    <3> QED BY <1>1, <1>2, <3>1
  <2> QED BY <2>1, <2>2
<1>6. CASE ~ (Len(all) > MaxRunBindings)
  <2>1. s = all /\ Len(all) \in Nat \ {0} /\ DOMAIN all = 1 .. Len(all)
    BY <1>1, <1>2, <1>4, <1>6
  <2>2. Len(all) \in DOMAIN all /\ Len(all) <= MaxRunBindings
    BY <1>3, <1>6, <2>1
  <2>3. \E i \in DOMAIN all : all[i].id = b.id
    BY <1>1, <2>2
  <2> QED BY <1>1, <1>5, <2>1, <2>2, <2>3 DEF From, s
<1>7. CASE Len(all) > MaxRunBindings
  <2>1. s = Tail(all) /\ all # <<>>
    BY <1>1, <1>2, <1>3, <1>4, <1>7
  <2>2. /\ s \in Seq(BindingRecord) /\ Len(s) = Len(all) - 1
        /\ \A i \in 1 .. Len(s) : s[i] = all[i + 1]
    BY <1>1, <2>1, HeadTailProperties
  <2>3. Len(s) <= MaxRunBindings /\ Len(s) \in Nat \ {0} /\ DOMAIN s = 1 .. Len(s)
    BY <1>1, <1>2, <1>3, <1>7, <2>2
  <2>4. \A i \in 1 .. Len(s) : i + 1 \in 1 .. Len(all)
    BY <2>2, <2>3
  <2>5. \A i, j \in 1 .. Len(s) : s[i].id = s[j].id => i = j
    <3> TAKE i, j \in 1 .. Len(s)
    <3> HAVE s[i].id = s[j].id
    <3>1. i + 1 = j + 1
      BY <1>1, <2>2, <2>4
    <3> QED BY <3>1, <2>3
  <2>6. Len(s) \in DOMAIN s /\ s[Len(s)] = b
    <3>1. Len(s) \in 1 .. Len(s) /\ Len(s) + 1 = Len(all)
      BY <2>2, <2>3
    <3> QED BY <1>1, <2>2, <2>3, <3>1
  <2>7. \A i \in 1 .. Len(s) : s[i] = b \/ \E k \in 1 .. Len(bindings) : s[i] = bindings[k]
    BY <1>5, <2>2, <2>4
  <2>8. \E i \in DOMAIN s : s[i].id = b.id
    BY <2>6
  <2> QED BY <2>2, <2>3, <2>5, <2>7, <2>8 DEF From, s
<1> QED BY <1>6, <1>7 DEF s

LEMMA TouchedProperties ==
    ASSUME LruKept, NEW r, Bound(r)
    PROVE  From(Touched(r), Binding(r))
<1> DEFINE b == Binding(r)
           all == Append(Others(r), b)
<1>1. b \in BindingRecord /\ b.id = r /\ b = bindings[Position(r)] /\ Position(r) \in 1 .. Len(bindings)
  BY PositionProperties DEF Binding, LruKept
<1>2. Touched(r) = all
  BY DEF Touched
<1> HIDE DEF b
<1>3. /\ all \in Seq(BindingRecord) /\ Len(all) = Len(Others(r)) + 1
      /\ all[Len(all)] = b
      /\ \A i \in 1 .. Len(all) - 1 : all[i] = Others(r)[i]
      /\ \A i, j \in 1 .. Len(all) : all[i].id = all[j].id => i = j
  BY <1>1, AppendedProperties
<1>4. /\ Len(Others(r)) = Len(bindings) - 1 /\ Len(Others(r)) \in Nat
      /\ \A i \in 1 .. Len(Others(r)) : \E k \in 1 .. Len(bindings) : Others(r)[i] = bindings[k]
  BY OthersProperties
<1> HIDE DEF all
<1>5. Len(all) = Len(bindings) /\ Len(all) \in Nat \ {0} /\ DOMAIN all = 1 .. Len(all)
  BY <1>3, <1>4 DEF LruKept
<1>6. Len(all) <= MaxRunBindings /\ Len(all) \in DOMAIN all /\ all[Len(all)].id = b.id
  BY <1>3, <1>5 DEF LruKept
<1>7. \A i \in 1 .. Len(all) : all[i] = b \/ \E k \in 1 .. Len(bindings) : all[i] = bindings[k]
  <2> TAKE i \in 1 .. Len(all)
  <2>1. CASE i = Len(all)
    BY <1>3, <2>1
  <2>2. CASE i # Len(all)
    <3>1. Len(Others(r)) = Len(all) - 1 /\ Len(all) \in Nat
      BY <1>3, <1>4
    <3>2. i \in 1 .. Len(all) - 1
      BY <2>2, <3>1
    <3> QED BY <1>3, <1>4, <3>1, <3>2
  <2> QED BY <2>1, <2>2
<1> QED BY <1>2, <1>3, <1>5, <1>6, <1>7 DEF From, b

----------------------------------------------------------------------------
(* What any step does to the runs                                            *)

\* A created run keeps its plan, and a completed one is only purged.
Evolves ==
    /\ run' \in [Runs -> [state : RunStates, plan : Selections]]
    /\ wrong' \in 0 .. MaxWrong /\ wrong' \in {wrong, wrong + 1}
    /\ \A r \in Runs : run[r].state # "absent" =>
          /\ run'[r].state # "absent" /\ run'[r].plan = run[r].plan
          /\ run[r].state \in {"completed", "purged"} => run'[r].state \in {"completed", "purged"}

LEMMA StandingRuns ==
    ASSUME BridgeTypes, run' = run, wrong' = wrong \/ (wrong' = wrong + 1 /\ wrong < MaxWrong)
    PROVE  Evolves
<1>1. MaxWrong \in Nat
  BY BridgeAssumption
<1> QED BY <1>1 DEF BridgeTypes, Evolves

LEMMA CreatedEvolves ==
    ASSUME BridgeTypes, call \in CallRecord, NEW r \in Runs, Created(r), wrong' = wrong
    PROVE  /\ Evolves
           /\ run[r].state = "absent" /\ run'[r] = [state |-> "active", plan |-> call.want]
           /\ \A q \in Runs \ {r} : run'[q] = run[q]
<1>1. call.want \in Selections
  BY DEF CallRecord
<1>2. /\ run[r].state = "absent" /\ run' = [run EXCEPT ![r] = [state |-> "active", plan |-> call.want]]
      /\ run \in [Runs -> [state : RunStates, plan : Selections]]
  BY DEF Created, BridgeTypes
<1>3. /\ run'[r] = [state |-> "active", plan |-> call.want]
      /\ \A q \in Runs \ {r} : run'[q] = run[q]
  BY <1>2
<1>4. run' \in [Runs -> [state : RunStates, plan : Selections]]
  BY <1>1, <1>2 DEF RunStates
<1>5. wrong' \in 0 .. MaxWrong
  BY DEF BridgeTypes
<1> QED BY <1>2, <1>3, <1>4, <1>5 DEF Evolves

LEMMA HarnessEvolves ==
    ASSUME BridgeTypes, NEW r \in Runs, RunMoves(r) \/ Purge(r), wrong' = wrong
    PROVE  Evolves /\ \A q \in Runs \ {r} : run'[q] = run[q]
<1>1. run \in [Runs -> [state : RunStates, plan : Selections]] /\ wrong' \in 0 .. MaxWrong
  BY DEF BridgeTypes
<1>2. PICK s \in {"completed", "failed", "purged"} :
        /\ run' = [run EXCEPT ![r].state = s]
        /\ run[r].state \in {"completed", "purged"} => s = "purged"
  BY DEF RunMoves, Purge, Terminal
<1>3. run' \in [Runs -> [state : RunStates, plan : Selections]]
  BY <1>1, <1>2 DEF RunStates
<1>4. run'[r].state = s /\ run'[r].plan = run[r].plan /\ \A q \in Runs \ {r} : run'[q] = run[q]
  BY <1>1, <1>2
<1> QED BY <1>1, <1>2, <1>3, <1>4 DEF Evolves

LEMMA TrueBindingKept ==
    ASSUME BridgeTypes, Evolves, NEW b \in BindingRecord, TrueBinding(b)
    PROVE  TrueBinding(b)'
<1>1. b.id \in Runs /\ wrong \in Nat
  BY BridgeAssumption DEF BindingRecord, BridgeTypes
<1>2. wrong' <= 1 => wrong <= 1 /\ (wrong' = 0 => wrong = 0)
  BY <1>1 DEF Evolves
<1> QED BY <1>1, <1>2 DEF TrueBinding, Evolves

LEMMA SameBindings ==
    ASSUME BridgeTypes, LruKept, BindingsHold, Evolves, bindings' = bindings
    PROVE  LruKept' /\ BindingsHold' /\ \A r : Bound(r)' <=> Bound(r)
<1>1. LruKept'
  BY DEF LruKept
<1>2. BindingsHold'
  <2> SUFFICES ASSUME NEW i \in 1 .. Len(bindings) PROVE TrueBinding(bindings[i])'
    BY DEF BindingsHold
  <2>1. bindings[i] \in BindingRecord /\ TrueBinding(bindings[i])
    BY DEF LruKept, BindingsHold
  <2>2. \A b \in BindingRecord : TrueBinding(b) => TrueBinding(b)'
    BY TrueBindingKept
  <2> QED BY <2>1, <2>2 DEF TrueBinding
<1>3. \A r : Bound(r)' <=> Bound(r)
  BY DEF Bound
<1> QED BY <1>1, <1>2, <1>3

LEMMA NewBindings ==
    ASSUME BridgeTypes, LruKept, BindingsHold, Evolves,
           NEW b \in BindingRecord, From(bindings', b), TrueBinding(b)'
    PROVE  LruKept' /\ BindingsHold' /\ Bound(b.id)'
<1>1. LruKept'
  BY DEF LruKept, From
<1>2. BindingsHold'
  <2> SUFFICES ASSUME NEW i \in 1 .. Len(bindings') PROVE TrueBinding(bindings[i])'
    BY DEF BindingsHold
  <2>1. CASE bindings'[i] = b
    BY <2>1 DEF TrueBinding
  <2>2. ASSUME NEW k \in 1 .. Len(bindings), bindings'[i] = bindings[k]
        PROVE  TrueBinding(bindings[i])'
    <3>1. bindings[k] \in BindingRecord /\ TrueBinding(bindings[k])
      BY DEF LruKept, BindingsHold
    <3>2. \A x \in BindingRecord : TrueBinding(x) => TrueBinding(x)'
      BY TrueBindingKept
    <3> QED BY <2>2, <3>1, <3>2 DEF TrueBinding
  <2> QED BY <2>1, <2>2 DEF From
<1>3. Bound(b.id)'
  BY DEF Bound, From
<1> QED BY <1>1, <1>2, <1>3

LEMMA BoundBinding ==
    ASSUME LruKept, BindingsHold, NEW r, Bound(r)
    PROVE  Binding(r) \in BindingRecord /\ Binding(r).id = r /\ TrueBinding(Binding(r))
<1>1. Position(r) \in 1 .. Len(bindings) /\ Binding(r).id = r
  BY PositionProperties
<1>2. Binding(r) \in BindingRecord
  BY <1>1 DEF Binding, LruKept
<1>3. TrueBinding(Binding(r))
  BY <1>1 DEF BindingsHold, Binding
<1> QED BY <1>1, <1>2, <1>3

----------------------------------------------------------------------------
(* A call that takes a reply                                                 *)

Passed == {"catalog", "validate", "task"}
Heeded(kind, reply, d) == [Absorb(kind, reply) EXCEPT !.spent = @ + d]

\* What the contract of an operation says of a reply.
InContract(kind, reply) ==
    /\ reply.id \in Runs
    /\ kind # "artifact" => reply.plan \in Selections
    /\ kind \in {"create", "run", "detail"} => reply.state \in RunStates
    /\ kind = "team" => reply.team \in Selections
    /\ kind = "quality" => reply.passed \in BOOLEAN

\* A reply that is true of a run.
TrueReply(kind, reply, r) ==
    /\ r.state # "absent"
    /\ kind # "artifact" => reply.plan = r.plan
    /\ kind \in {"create", "run", "detail"} => reply.state = r.state
    /\ kind = "team" => reply.team = r.plan
    /\ kind = "quality" => (reply.passed <=> r.state = "completed")

LEMMA HonestReplies ==
    ASSUME BridgeTypes, NEW kind \in Reads, NEW r \in Runs, Exists(r)
    PROVE  /\ InContract(kind, HonestReply(kind, r)) /\ HonestReply(kind, r).id = r
           /\ TrueReply(kind, HonestReply(kind, r), run[r])
<1>1. run[r].plan \in Selections /\ run[r].state \in RunStates /\ run[r].state # "absent"
  BY DEF BridgeTypes, Exists
<1>2. CASE kind = "run"
  BY <1>1, <1>2 DEF HonestReply, Contract, RunReply, InContract, TrueReply
<1>3. CASE kind = "team"
  BY <1>1, <1>3 DEF HonestReply, Contract, TeamReply, InContract, TrueReply
<1>4. CASE kind = "detail"
  BY <1>1, <1>4 DEF HonestReply, Contract, DetailReply, InContract, TrueReply
<1>5. CASE kind = "quality"
  BY <1>1, <1>5 DEF HonestReply, Contract, QualityReply, InContract, TrueReply
<1>6. CASE kind = "artifact"
  BY <1>1, <1>6 DEF HonestReply, Contract, ArtifactReply, InContract, TrueReply
<1> QED BY <1>2, <1>3, <1>4, <1>5, <1>6 DEF Reads

LEMMA WrongInContract ==
    ASSUME NEW kind \in Reads \cup {"create"}, NEW reply \in WrongReplies(kind)
    PROVE  InContract(kind, reply)
<1>1. PICK r \in Runs, v \in [plan : Selections, team : Selections, state : {"active", "completed"}] :
        reply = Contract(kind, r, v)
  BY DEF WrongReplies
<1>2. v.plan \in Selections /\ v.team \in Selections /\ v.state \in RunStates
  BY DEF RunStates
<1>3. CASE kind \in {"create", "run"}
  BY <1>1, <1>2, <1>3 DEF Contract, RunReply, InContract
<1>4. CASE kind = "team"
  BY <1>1, <1>2, <1>4 DEF Contract, TeamReply, InContract
<1>5. CASE kind = "detail"
  BY <1>1, <1>2, <1>5 DEF Contract, DetailReply, InContract
<1>6. CASE kind = "quality"
  BY <1>1, <1>2, <1>6 DEF Contract, QualityReply, InContract
<1>7. CASE kind = "artifact"
  BY <1>1, <1>2, <1>7 DEF Contract, ArtifactReply, InContract
<1> QED BY <1>3, <1>4, <1>5, <1>6, <1>7 DEF Reads

\* c is the call after the reply, field by field.
Heeds(c, kind, reply) ==
    /\ c.tool = call.tool /\ c.want = call.want /\ c.moved = call.moved
    /\ c.todo = Tail(call.todo)
    /\ c.id = IF kind = "create" THEN reply.id ELSE call.id
    /\ c.known <=> call.known \/ kind = "team"
    /\ kind \in {"create", "run"} =>
         c.run = [kind |-> "run", plan |-> reply.plan, state |-> reply.state]
    /\ kind \notin {"create", "run"} => c.run = call.run
    /\ kind = "detail" =>
         c.doc = [kind |-> "detail", plan |-> reply.plan, state |-> reply.state]
    /\ kind = "quality" => c.doc = [kind |-> "quality", passed |-> reply.passed]
    /\ kind = "team" => c.doc = [kind |-> "team", team |-> reply.team]
    /\ kind \notin {"detail", "quality", "team"} => c.doc = call.doc

LEMMA HeededFields ==
    ASSUME call \in CallRecord, NEW kind, NEW reply, NEW d
    PROVE  Heeds(Heeded(kind, reply, d), kind, reply)
BY DEF Heeded, Heeds, Absorb, CallRecord

LEMMA CallUpdate ==
    ASSUME NEW r \in CallRecord, NEW todo \in Seq(Kinds), NEW id \in Runs \cup {NoRun},
           NEW known \in BOOLEAN, NEW heard \in Heard, NEW doc \in Docs, NEW spent \in Nat
    PROVE  [[r EXCEPT !.todo = todo, !.id = id, !.known = known, !.run = heard, !.doc = doc]
                EXCEPT !.spent = spent] \in CallRecord
BY DEF CallRecord

LEMMA HeededTyped ==
    ASSUME call \in CallRecord, call.todo # <<>>, NEW d \in Nat,
           NEW kind, NEW reply, InContract(kind, reply) \/ kind \in Passed
    PROVE  Heeded(kind, reply, d) \in CallRecord
<1> DEFINE id == IF kind = "create" THEN reply.id ELSE call.id
           known == call.known \/ kind = "team"
           heard == IF kind \in {"create", "run"}
                    THEN [kind |-> "run", plan |-> reply.plan, state |-> reply.state] ELSE call.run
           doc == CASE kind = "detail"  -> [kind |-> "detail", plan |-> reply.plan, state |-> reply.state]
                    [] kind = "quality" -> [kind |-> "quality", passed |-> reply.passed]
                    [] kind = "team"    -> [kind |-> "team", team |-> reply.team]
                    [] OTHER            -> call.doc
           spent == Absorb(kind, reply).spent + d
<1>1. /\ call.tool \in Tools /\ call.id \in Runs \cup {NoRun} /\ call.want \in Selections
      /\ call.todo \in Seq(Kinds) /\ call.known \in BOOLEAN /\ call.spent \in Nat
      /\ call.moved \in BOOLEAN /\ call.run \in Heard /\ call.doc \in Docs
  BY DEF CallRecord
<1>2. Tail(call.todo) \in Seq(Kinds) /\ id \in Runs \cup {NoRun} /\ known \in BOOLEAN
  BY <1>1 DEF InContract, Passed
<1>3. spent \in Nat
  <2>1. Absorb(kind, reply).spent = call.spent
    BY DEF Absorb, CallRecord
  <2> QED BY <1>1, <2>1
<1>4. heard \in Heard
  <2>1. CASE kind \in {"create", "run"}
    <3>1. reply.plan \in Selections /\ reply.state \in RunStates
      BY <2>1 DEF InContract, Passed
    <3> QED BY <2>1, <3>1 DEF Heard
  <2> QED BY <1>1, <2>1
<1>5. doc \in Docs
  <2>1. CASE kind = "detail"
    <3>1. reply.plan \in Selections /\ reply.state \in RunStates
      BY <2>1 DEF InContract, Passed
    <3> QED BY <2>1, <3>1 DEF Docs
  <2>2. CASE kind = "quality"
    BY <2>2 DEF Docs, InContract, Passed
  <2>3. CASE kind = "team"
    BY <2>3 DEF Docs, InContract, Passed
  <2> QED BY <1>1, <2>1, <2>2, <2>3
<1>6. Absorb(kind, reply) =
        [call EXCEPT !.todo = Tail(call.todo), !.id = id, !.known = known, !.run = heard, !.doc = doc]
  BY Zenon DEF Absorb
<1>7. Heeded(kind, reply, d) = [Absorb(kind, reply) EXCEPT !.spent = spent]
  BY Zenon DEF Heeded
<1> HIDE DEF id, known, heard, doc, spent
<1>8. [[call EXCEPT !.todo = Tail(call.todo), !.id = id, !.known = known, !.run = heard, !.doc = doc]
            EXCEPT !.spent = spent] \in CallRecord
  BY <1>2, <1>3, <1>4, <1>5, Zenon, CallUpdate
<1> QED BY <1>6, <1>7, <1>8, Zenon

\* What a call that asked everything has heard.
Over(c) ==
    /\ c.todo = <<>>
    /\ c.tool \in {"run", "detail", "artifact", "quality"} => c.known /\ c.run # NoAnswer
    /\ c.tool \in {"start", "delegate"} => c.known
    /\ IF c.tool \in {"catalog", "propose"} THEN c.id = NoRun ELSE c.id \in Runs
    /\ c.tool = "quality" => c.doc.kind = "quality"
    /\ c.doc.kind \in {"detail", "quality"} => c.tool = c.doc.kind

\* Each reply takes a call to its next stage.
LEMMA StageStep ==
    ASSUME call \in CallRecord, call.todo # <<>>, Staged(call), NEW kind, kind = Head(call.todo),
           NEW reply, NEW d, InContract(kind, reply) \/ kind \in Passed
    PROVE  Staged(Heeded(kind, reply, d)) \/ Over(Heeded(kind, reply, d))
<1> DEFINE c == Heeded(kind, reply, d)
<1>0. Heeds(c, kind, reply)
  BY HeededFields
<1> HIDE DEF c
<1>1. /\ c.tool = call.tool /\ c.todo = Tail(call.todo)
      /\ c.id = IF kind = "create" THEN reply.id ELSE call.id
      /\ c.known <=> call.known \/ kind = "team"
      /\ kind \in {"create", "run"} =>
           c.run = [kind |-> "run", plan |-> reply.plan, state |-> reply.state]
      /\ kind \notin {"create", "run"} => c.run = call.run
      /\ kind = "detail" =>
           c.doc = [kind |-> "detail", plan |-> reply.plan, state |-> reply.state]
      /\ kind = "quality" => c.doc = [kind |-> "quality", passed |-> reply.passed]
      /\ kind = "team" => c.doc = [kind |-> "team", team |-> reply.team]
      /\ kind \notin {"detail", "quality", "team"} => c.doc = call.doc
  BY <1>0 DEF Heeds
<1>2. kind \in {"create", "run"} => c.run.kind = "run" /\ c.run # NoAnswer
  BY <1>1 DEF NoAnswer
<1>3. kind \in {"detail", "quality", "team"} => c.doc.kind = kind
  BY <1>1
<1>4. kind = "create" => reply.id \in Runs
  BY DEF InContract, Passed
<1>5. NoAnswer.kind = "none"
  BY DEF NoAnswer
<1>6. CASE Passing(call)
  <2>1. \A i \in 1 .. Len(call.todo) : call.todo[i] \in {"catalog", "validate", "task"}
    BY <1>6 DEF Passing
  <2>2. call.todo \in Seq(Kinds)
    BY DEF CallRecord
  <2>3. /\ kind \in {"catalog", "validate", "task"} /\ c.todo \in Seq(Kinds)
        /\ \A i \in 1 .. Len(c.todo) : c.todo[i] \in {"catalog", "validate", "task"}
    <3>1. kind = call.todo[1] /\ 1 \in 1 .. Len(call.todo)
      BY <2>2
    <3>2. /\ c.todo \in Seq(Kinds) /\ Len(c.todo) = Len(call.todo) - 1 /\ Len(call.todo) \in Nat
          /\ \A i \in 1 .. Len(c.todo) : c.todo[i] = call.todo[i + 1]
      BY <1>1, <2>2, HeadTailProperties
    <3>3. \A i \in 1 .. Len(c.todo) : i + 1 \in 1 .. Len(call.todo)
      BY <3>2
    <3> QED BY <2>1, <3>1, <3>2, <3>3
  <2>4. c.tool \in {"catalog", "propose"} /\ c.id = NoRun /\ Fresh(c)
    BY <1>1, <1>6, <2>3 DEF Passing, Fresh
  <2> QED BY <2>3, <2>4 DEF Passing, Staged, c
<1>7. CASE Proposing(call)
  <2> USE <1>7 DEF Proposing
  <2>1. CASE call.todo = <<"catalog", "validate", "task", "create", "team">>
    <3>1. kind = "catalog" /\ c.todo = <<"validate", "task", "create", "team">>
      BY <1>1, <2>1
    <3>2. Proposing(c)
      BY <1>1, <3>1 DEF Fresh
    <3> QED BY <3>2 DEF Staged, c
  <2>2. CASE call.todo = <<"validate", "task", "create", "team">>
    <3>1. kind = "validate" /\ c.todo = <<"task", "create", "team">>
      BY <1>1, <2>2
    <3>2. Proposing(c)
      BY <1>1, <3>1 DEF Fresh
    <3> QED BY <3>2 DEF Staged, c
  <2>3. CASE call.todo = <<"task", "create", "team">>
    <3>1. kind = "task" /\ c.todo = <<"create", "team">>
      BY <1>1, <2>3
    <3>2. Proposing(c)
      BY <1>1, <3>1 DEF Fresh
    <3> QED BY <3>2 DEF Staged, c
  <2>4. CASE call.todo = <<"create", "team">>
    <3>1. kind = "create" /\ c.todo = <<"team">>
      BY <1>1, <2>4
    <3>2. Starting(c)
      BY <1>1, <1>2, <1>4, <3>1 DEF Starting, Fresh
    <3> QED BY <3>2 DEF Staged, c
  <2> QED BY <2>1, <2>2, <2>3, <2>4
<1>8. CASE Starting(call)
  <2>1. kind = "team" /\ c.todo = <<>>
    BY <1>1, <1>8 DEF Starting
  <2>2. Over(c)
    BY <1>1, <1>3, <1>8, <2>1 DEF Starting, Over
  <2> QED BY <2>2 DEF c
<1>9. CASE Rebuilding(call)
  <2>0. call.tool \in Reads /\ call.id \in Runs /\ ~ call.known /\ call.doc = NoAnswer
    BY <1>9 DEF Rebuilding
  <2>1. CASE call.tool \in {"run", "team"} /\ call.todo = <<"run", "team">>
    <3>1. kind = "run" /\ c.todo = <<"team">>
      BY <1>1, <2>1
    <3>2. Rebuilding(c)
      BY <1>1, <1>2, <2>0, <2>1, <3>1 DEF Rebuilding
    <3> QED BY <3>2 DEF Staged, c
  <2>2. CASE call.tool \in {"run", "team"} /\ call.run # NoAnswer /\ call.todo = <<"team">>
    <3>1. kind = "team" /\ c.todo = <<>>
      BY <1>1, <2>2
    <3>2. Over(c)
      BY <1>1, <1>3, <2>0, <2>2, <3>1 DEF Over
    <3> QED BY <3>2 DEF c
  <2>3. CASE call.tool \notin {"run", "team"} /\ call.todo = <<"run", "team", call.tool>>
    <3>1. kind = "run" /\ c.todo = <<"team", call.tool>>
      BY <1>1, <2>3
    <3>2. Rebuilding(c)
      BY <1>1, <1>2, <2>0, <2>3, <3>1 DEF Rebuilding
    <3> QED BY <3>2 DEF Staged, c
  <2>4. CASE call.tool \notin {"run", "team"} /\ call.run # NoAnswer /\ call.todo = <<"team", call.tool>>
    <3>1. kind = "team" /\ c.todo = <<call.tool>>
      BY <1>1, <2>4
    <3>2. c.tool \in {"detail", "quality", "artifact"}
      BY <1>1, <2>0, <2>4 DEF Reads
    <3>3. Reading(c)
      BY <1>1, <1>3, <2>0, <2>4, <3>1, <3>2 DEF Reading, Reads
    <3> QED BY <3>3 DEF Staged, c
  <2> QED BY <1>9, <2>1, <2>2, <2>3, <2>4 DEF Rebuilding
<1>10. CASE Reading(call)
  <2>0. call.tool \in Reads /\ call.id \in Runs /\ call.known
    BY <1>10 DEF Reading
  <2>1. CASE call.tool = "run" /\ Fresh(call) /\ call.todo = <<"run">>
    <3>1. kind = "run" /\ c.todo = <<>>
      BY <1>1, <2>1
    <3>2. Over(c)
      BY <1>1, <1>2, <1>5, <2>0, <2>1, <3>1 DEF Over, Fresh
    <3> QED BY <3>2 DEF c
  <2>2. CASE call.tool \in {"team", "detail", "quality"} /\ Fresh(call) /\ call.todo = <<call.tool, "run">>
    <3>1. kind = call.tool /\ c.todo = <<"run">>
      BY <1>1, <2>2
    <3>2. Reading(c)
      BY <1>1, <1>3, <2>0, <2>2, <3>1 DEF Reading, Fresh
    <3> QED BY <3>2 DEF Staged, c
  <2>3. CASE call.tool \in {"team", "detail", "quality"} /\ call.doc.kind = call.tool /\ call.todo = <<"run">>
    <3>1. kind = "run" /\ c.todo = <<>>
      BY <1>1, <2>3
    <3>2. Over(c)
      BY <1>1, <1>2, <2>0, <2>3, <3>1 DEF Over
    <3> QED BY <3>2 DEF c
  <2>4. CASE call.tool = "artifact" /\ Fresh(call) /\ call.todo = <<"run", "artifact">>
    <3>1. kind = "run" /\ c.todo = <<"artifact">>
      BY <1>1, <2>4
    <3>2. Reading(c)
      BY <1>1, <1>2, <1>5, <2>0, <2>4, <3>1 DEF Reading, Fresh
    <3> QED BY <3>2 DEF Staged, c
  <2>5. CASE /\ call.tool \in {"artifact", "detail", "quality"} /\ call.run # NoAnswer
             /\ call.doc.kind \in {"none", "team"} /\ call.todo = <<call.tool>>
    <3>1. kind = call.tool /\ c.todo = <<>>
      BY <1>1, <2>5
    <3>2. Over(c)
      BY <1>1, <1>3, <2>0, <2>5, <3>1 DEF Over
    <3> QED BY <3>2 DEF c
  <2> QED BY <1>10, <2>1, <2>2, <2>3, <2>4, <2>5 DEF Reading
<1> QED BY <1>6, <1>7, <1>8, <1>9, <1>10 DEF Staged

\* What the next request of a call says about its stage.
LEMMA StageFacts ==
    ASSUME call \in CallRecord, call.todo # <<>>, Staged(call), NEW kind, kind = Head(call.todo)
    PROVE  /\ kind \in Kinds
           /\ kind = "create" => ~ call.known /\ call.tool \in {"start", "delegate"} /\ Fresh(call)
           /\ kind \in Reads => /\ call.id \in Runs /\ call.tool \notin {"catalog", "propose"}
                                /\ kind # "team" => call.tool \in Reads
           /\ kind = "team" => call.known \/ call.run # NoAnswer
           /\ kind \in {"detail", "quality", "artifact"} => call.known /\ call.tool = kind
<1>1. CASE Passing(call)
  <2>1. call.todo \in Seq(Kinds) /\ kind = call.todo[1] /\ 1 \in 1 .. Len(call.todo)
    BY DEF CallRecord
  <2>2. kind \in {"catalog", "validate", "task"}
    BY <1>1, <2>1 DEF Passing
  <2> QED BY <2>2 DEF Kinds, Reads
<1>2. CASE Proposing(call)
  <2>1. kind \in {"catalog", "validate", "task", "create"}
    BY <1>2 DEF Proposing
  <2> QED BY <1>2, <2>1 DEF Proposing, Kinds, Reads
<1>3. CASE Starting(call)
  <2>1. kind = "team"
    BY <1>3 DEF Starting
  <2> QED BY <1>3, <2>1 DEF Starting, Kinds, Reads
<1>4. CASE Rebuilding(call)
  <2>1. kind = "run" \/ (kind = "team" /\ call.run # NoAnswer)
    BY <1>4 DEF Rebuilding
  <2> QED BY <1>4, <2>1 DEF Rebuilding, Kinds, Reads
<1>5. CASE Reading(call)
  <2>1. kind = "run" \/ (kind = call.tool /\ call.tool \in Reads)
    BY <1>5 DEF Reading, Reads
  <2> QED BY <1>5, <2>1 DEF Reading, Kinds, Reads
<1> QED BY <1>1, <1>2, <1>3, <1>4, <1>5 DEF Staged

\* A reply from the Harness, as it is when the exchange is over.
Honestly(kind, reply) ==
    /\ wrong' = wrong /\ TrueReply(kind, reply, run'[reply.id])
    /\ kind = "create" => reply.plan = call.want /\ run[reply.id].state = "absent"
    /\ kind \in Reads => reply.id = call.id

\* A reply within the contract, from the Harness or not.
Replied(kind, reply) ==
    /\ kind \in Reads \cup {"create"} /\ InContract(kind, reply)
    /\ kind # "create" => run' = run
    /\ Honestly(kind, reply) \/ wrong' = wrong + 1

\* What the adapter has heard stays true when it takes a reply it believes.
LEMMA HeardStep ==
    ASSUME BridgeTypes, LruKept, BindingsHold, CallHolds, call # NoCall, Evolves,
           NEW kind \in Reads \cup {"create"}, kind = Head(call.todo), NEW d,
           NEW reply, Replied(kind, reply), Believed(kind, reply)
    PROVE  HeardTrue(Heeded(kind, reply, d), run', wrong')
<1> DEFINE c == Heeded(kind, reply, d)
<1>0. call \in CallRecord /\ call.todo # <<>> /\ Staged(call) /\ HeardTrue(call, run, wrong)
  BY DEF BridgeTypes, CallHolds
<1>a. Heeds(c, kind, reply)
  BY <1>0, HeededFields
<1> HIDE DEF c
<1>1. /\ c.tool = call.tool /\ c.want = call.want /\ c.moved = call.moved
      /\ c.id = IF kind = "create" THEN reply.id ELSE call.id
      /\ c.known <=> call.known \/ kind = "team"
      /\ kind \in {"create", "run"} =>
           c.run = [kind |-> "run", plan |-> reply.plan, state |-> reply.state]
      /\ kind \notin {"create", "run"} => c.run = call.run
      /\ kind = "detail" =>
           c.doc = [kind |-> "detail", plan |-> reply.plan, state |-> reply.state]
      /\ kind = "quality" => c.doc = [kind |-> "quality", passed |-> reply.passed]
      /\ kind = "team" => c.doc = [kind |-> "team", team |-> reply.team]
      /\ kind \notin {"detail", "quality", "team"} => c.doc = call.doc
  BY <1>a DEF Heeds
<1>2. /\ kind = "create" => ~ call.known /\ call.tool \in {"start", "delegate"} /\ Fresh(call)
      /\ kind \in Reads => /\ call.id \in Runs /\ call.tool \notin {"catalog", "propose"}
                           /\ kind # "team" => call.tool \in Reads
      /\ kind = "team" => call.known \/ call.run # NoAnswer
      /\ kind \in {"detail", "quality", "artifact"} => call.known /\ call.tool = kind
  BY <1>0, StageFacts
<1>3. NoAnswer.kind = "none"
  BY DEF NoAnswer
<1>4. wrong \in Nat /\ wrong' \in Nat /\ wrong <= wrong' /\ (wrong' = wrong \/ wrong' = wrong + 1)
  BY BridgeAssumption DEF BridgeTypes, Evolves
<1>5. /\ wrong' = 0 => wrong = 0 /\ wrong' = wrong
      /\ wrong' <= 1 => wrong <= 1 /\ (wrong' = wrong \/ wrong = 0)
  BY <1>4
<1>6. /\ wrong = 0 => RunHeard(call, run) /\ DocHeard(call, run)
      /\ wrong <= 1 => Confirmed(call, run)
  BY <1>0 DEF HeardTrue
<1>7. call.known => Binding(call.id) \in BindingRecord /\ Binding(call.id).id = call.id
                    /\ TrueBinding(Binding(call.id))
  BY BoundBinding DEF CallHolds
<1>8. kind \in Reads => reply.id = call.id
  BY DEF Believed, Reads
<1> DEFINE honest == Honestly(kind, reply)
<1>9. /\ wrong' = 0 => wrong = 0 /\ honest
      /\ wrong' <= 1 => wrong <= 1 /\ (honest \/ wrong = 0)
  BY <1>4, <1>5 DEF Replied
<1> HIDE DEF honest
<1>10. CASE kind = "create"
  <2>1. c.run = [kind |-> "run", plan |-> reply.plan, state |-> reply.state] /\ c.doc = NoAnswer
        /\ ~ c.known /\ c.id = reply.id /\ c.want = call.want
    BY <1>1, <1>2, <1>10 DEF Fresh
  <2>2. honest => RunHeard(c, run')
    BY <1>10, <2>1 DEF RunHeard, TrueReply, honest, Honestly
  <2>3. DocHeard(c, run') /\ Confirmed(c, run')
    BY <1>3, <2>1 DEF DocHeard, Confirmed
  <2> QED BY <1>9, <2>2, <2>3 DEF HeardTrue, c
<1>11. CASE kind = "run"
  <2>1. /\ c.run = [kind |-> "run", plan |-> reply.plan, state |-> reply.state] /\ c.doc = call.doc
        /\ (c.known <=> call.known) /\ c.id = call.id /\ c.moved = call.moved
        /\ reply.id = call.id /\ run' = run /\ c.tool = call.tool /\ call.tool \in Reads
    BY <1>1, <1>2, <1>8, <1>11 DEF Reads, Replied
  <2>2. honest => RunHeard(c, run')
    BY <1>11, <2>1 DEF RunHeard, TrueReply, Reads, honest, Honestly
  <2>3. wrong = 0 => DocHeard(c, run')
    BY <1>6, <2>1 DEF DocHeard
  <2>4. wrong <= 1 /\ c.known => c.run.plan = run'[c.id].plan
    BY <1>7, <1>11, <2>1 DEF Believed, KnownRun, TrueBinding
  <2>5. ASSUME honest \/ wrong = 0, c.run.state = "completed", c.doc.kind = "quality", c.doc.passed
        PROVE  run'[c.id].state \in {"completed", "purged"}
    BY <1>6, <1>11, <2>1, <2>5 DEF TrueReply, DocHeard, honest, Honestly
  <2>6. wrong <= 1 /\ (honest \/ wrong = 0) => Confirmed(c, run')
    BY <2>1, <2>4, <2>5 DEF Confirmed, Reads
  <2> QED BY <1>9, <2>2, <2>3, <2>6 DEF HeardTrue, c
<1>12. CASE kind = "team"
  <2>1. /\ c.run = call.run /\ c.doc.kind = "team"
        /\ c.known /\ c.id = call.id /\ c.moved = call.moved /\ c.want = call.want
        /\ reply.id = call.id /\ run' = run /\ c.tool = call.tool
    BY <1>1, <1>2, <1>8, <1>12 DEF Reads, Replied
  <2>2. wrong = 0 => RunHeard(c, run')
    BY <1>6, <2>1 DEF RunHeard
  <2>3. DocHeard(c, run')
    BY <2>1 DEF DocHeard
  <2>4. ASSUME wrong <= 1, honest \/ wrong = 0, c.run # NoAnswer
        PROVE  c.run.plan = run'[c.id].plan
    <3>1. CASE call.known
      BY <1>6, <2>1, <2>4, <3>1 DEF Confirmed
    <3>2. CASE ~ call.known
      <4>1. reply.plan = call.run.plan
        BY <1>12, <3>2 DEF Believed
      <4>2. honest => reply.plan = run[call.id].plan
        BY <1>12, <2>1 DEF honest, Honestly, TrueReply
      <4> QED BY <1>6, <2>1, <2>4, <4>1, <4>2 DEF RunHeard
    <3> QED BY <3>1, <3>2
  <2>5. ASSUME wrong <= 1, honest \/ wrong = 0, c.tool \in {"start", "delegate"}
        PROVE  run'[c.id].plan = c.want
    <3>1. honest => reply.team = run[call.id].plan
      BY <1>12, <2>1 DEF honest, Honestly, TrueReply
    <3>2. reply.team = call.want
      BY <1>12, <2>1, <2>5 DEF Believed, Requested
    <3> QED BY <1>2, <1>6, <1>12, <2>1, <2>5, <3>1, <3>2 DEF RunHeard, Confirmed
  <2>6. wrong <= 1 /\ (honest \/ wrong = 0) => Confirmed(c, run')
    BY <2>1, <2>4, <2>5 DEF Confirmed
  <2> QED BY <1>9, <2>2, <2>3, <2>6 DEF HeardTrue, c
<1>13. CASE kind = "detail"
  <2>1. /\ c.run = call.run /\ c.doc = [kind |-> "detail", plan |-> reply.plan, state |-> reply.state]
        /\ c.known /\ call.known /\ c.id = call.id /\ c.moved = call.moved /\ c.want = call.want
        /\ reply.id = call.id /\ run' = run /\ c.tool = call.tool
    BY <1>1, <1>2, <1>8, <1>13 DEF Reads, Replied
  <2>2. wrong = 0 => RunHeard(c, run')
    BY <1>6, <2>1 DEF RunHeard
  <2>3. honest => DocHeard(c, run')
    BY <1>13, <2>1 DEF DocHeard, honest, Honestly, TrueReply
  <2>4. wrong <= 1 => Confirmed(c, run')
    BY <1>6, <2>1 DEF Confirmed
  <2> QED BY <1>9, <2>2, <2>3, <2>4 DEF HeardTrue, c
<1>14. CASE kind = "quality"
  <2>1. /\ c.run = call.run /\ c.doc = [kind |-> "quality", passed |-> reply.passed]
        /\ c.known /\ call.known /\ c.id = call.id /\ c.moved = call.moved /\ c.want = call.want
        /\ reply.id = call.id /\ run' = run /\ c.tool = call.tool
    BY <1>1, <1>2, <1>8, <1>14 DEF Reads, Replied
  <2>2. wrong = 0 => RunHeard(c, run')
    BY <1>6, <2>1 DEF RunHeard
  <2>3. honest => DocHeard(c, run')
    BY <1>14, <2>1 DEF DocHeard, honest, Honestly, TrueReply
  <2>4. ASSUME honest \/ wrong = 0, c.run # NoAnswer, c.run.state = "completed", c.doc.passed
        PROVE  run'[c.id].state \in {"completed", "purged"}
    BY <1>6, <1>14, <2>1, <2>4 DEF TrueReply, RunHeard, honest, Honestly
  <2>5. wrong <= 1 /\ (honest \/ wrong = 0) => Confirmed(c, run')
    BY <1>6, <2>1, <2>4 DEF Confirmed
  <2> QED BY <1>9, <2>2, <2>3, <2>5 DEF HeardTrue, c
<1>15. CASE kind = "artifact"
  <2>1. /\ c.run = call.run /\ c.doc = call.doc /\ (c.known <=> call.known) /\ c.id = call.id
        /\ c.moved = call.moved /\ c.want = call.want /\ run' = run /\ c.tool = call.tool
    BY <1>1, <1>15 DEF Replied
  <2>2. wrong = 0 => RunHeard(c, run') /\ DocHeard(c, run')
    BY <1>6, <2>1 DEF RunHeard, DocHeard
  <2>3. wrong <= 1 => Confirmed(c, run')
    BY <1>6, <2>1 DEF Confirmed
  <2> QED BY <1>9, <2>2, <2>3 DEF HeardTrue, c
<1> QED BY <1>10, <1>11, <1>12, <1>13, <1>14, <1>15 DEF Reads

\* A reply that only is passed on changes nothing that was heard.
LEMMA PassedHeard ==
    ASSUME BridgeTypes, CallHolds, call # NoCall, NEW kind \in Passed, NEW reply, NEW d,
           run' = run, wrong' = wrong
    PROVE  HeardTrue(Heeded(kind, reply, d), run', wrong')
<1> DEFINE c == Heeded(kind, reply, d)
<1>0. call \in CallRecord /\ HeardTrue(call, run, wrong)
  BY DEF BridgeTypes, CallHolds
<1>a. Heeds(c, kind, reply)
  BY <1>0, HeededFields
<1> HIDE DEF c
<1>1. /\ c.tool = call.tool /\ c.want = call.want /\ c.moved = call.moved /\ c.id = call.id
      /\ (c.known <=> call.known) /\ c.run = call.run /\ c.doc = call.doc
  BY <1>a DEF Heeds, Passed
<1>2. HeardTrue(c, run, wrong)
  BY <1>0, <1>1 DEF HeardTrue, RunHeard, DocHeard, Confirmed
<1> QED BY <1>2 DEF c

\* A correct Harness is believed.
LEMMA HonestBelieved ==
    ASSUME BridgeTypes, LruKept, BindingsHold, CallHolds, call # NoCall, wrong = 0,
           NEW kind \in Reads \cup {"create"}, kind = Head(call.todo),
           NEW reply, Replied(kind, reply), Honestly(kind, reply)
    PROVE  Believed(kind, reply)
<1>0. /\ call \in CallRecord /\ call.todo # <<>> /\ Staged(call)
      /\ RunHeard(call, run) /\ (call.known => Bound(call.id))
  BY DEF BridgeTypes, CallHolds, HeardTrue
<1>1. /\ kind \in Reads => call.id \in Runs
      /\ kind = "team" => call.known \/ call.run # NoAnswer
      /\ kind \in {"detail", "quality", "artifact"} => call.known /\ call.tool = kind
  BY <1>0, StageFacts
<1>2. kind = "create" => ~ Bound(reply.id)
  <2> SUFFICES ASSUME kind = "create", Bound(reply.id) PROVE FALSE
    OBVIOUS
  <2>1. TrueBinding(Binding(reply.id)) /\ Binding(reply.id).id = reply.id
    BY BoundBinding
  <2> QED BY <2>1 DEF TrueBinding, Honestly
<1>3. kind \in Reads => reply.id = call.id /\ run' = run
  BY DEF Honestly, Replied, Reads
<1>4. call.known => /\ Binding(call.id).plan = run[call.id].plan
                    /\ Binding(call.id).team = run[call.id].plan
  BY <1>0, BoundBinding DEF TrueBinding
<1>5. kind = "run" => reply.plan = run[call.id].plan
  BY <1>3 DEF Honestly, TrueReply, Reads
<1>6. kind = "quality" => reply.plan = Binding(call.id).plan
  BY <1>1, <1>3, <1>4 DEF Honestly, TrueReply, Reads
<1>7. ASSUME kind = "team"
      PROVE  /\ IF call.known THEN KnownTeam(reply) ELSE reply.plan = call.run.plan
             /\ call.tool \in {"start", "delegate"} => Requested(reply)
  <2>1. reply.plan = run[call.id].plan /\ reply.team = run[call.id].plan
    BY <1>3, <1>7 DEF Honestly, TrueReply, Reads
  <2>2. CASE call.known
    <3>1. call.tool \notin {"start", "delegate"}
      BY <1>0, <1>7, <2>2 DEF Staged, Passing, Proposing, Starting, Rebuilding, Reading, Reads
    <3> QED BY <1>4, <2>1, <2>2, <3>1 DEF KnownTeam
  <2>3. CASE ~ call.known
    BY <1>0, <1>1, <1>7, <2>1, <2>3 DEF RunHeard, Requested
  <2> QED BY <2>2, <2>3
<1> QED BY <1>2, <1>3, <1>4, <1>5, <1>6, <1>7 DEF Believed, KnownRun

----------------------------------------------------------------------------
(* What a reply leaves                                                       *)

\* The call after a reply that was believed, and the LRU with it.
LEMMA HeededHolds ==
    ASSUME BridgeInv, call # NoCall, Evolves, NEW kind, kind = Head(call.todo), NEW d \in Nat,
           NEW reply, Believed(kind, reply), bindings' = BindingAfter(kind, reply),
           Replied(kind, reply) \/ (kind \in Passed /\ run' = run /\ wrong' = wrong)
    PROVE  LET c == Heeded(kind, reply, d)
           IN  /\ c \in CallRecord /\ (Staged(c) \/ Over(c)) /\ HeardTrue(c, run', wrong')
               /\ LruKept' /\ BindingsHold' /\ (c.known => \E i \in DOMAIN bindings' : bindings'[i].id = c.id)
<1> DEFINE c == Heeded(kind, reply, d)
<1>0. /\ BridgeTypes /\ LruKept /\ BindingsHold /\ CallHolds
      /\ call \in CallRecord /\ call.todo # <<>> /\ Staged(call)
      /\ HeardTrue(call, run, wrong) /\ (call.known => Bound(call.id))
  BY DEF BridgeInv, BridgeTypes, CallHolds
<1>1. InContract(kind, reply) \/ kind \in Passed
  BY DEF Replied
<1>2. c \in CallRecord
  BY <1>0, <1>1, HeededTyped
<1>3. Staged(c) \/ Over(c)
  BY <1>0, <1>1, StageStep
<1>4. HeardTrue(c, run', wrong')
  <2>1. CASE Replied(kind, reply)
    <3>1. kind \in Reads \cup {"create"}
      BY <2>1 DEF Replied
    <3> QED BY <1>0, <2>1, <3>1, HeardStep
  <2>2. CASE kind \in Passed /\ run' = run /\ wrong' = wrong
    BY <1>0, <2>2, PassedHeard
  <2> QED BY <2>1, <2>2
<1>a. Heeds(c, kind, reply)
  BY <1>0, HeededFields
<1>6. /\ kind = "create" => ~ call.known
      /\ kind \in Reads => call.id \in Runs
      /\ kind = "team" => call.known \/ call.run # NoAnswer
  BY <1>0, StageFacts
<1> HIDE DEF c
<1>5. /\ c.id = IF kind = "create" THEN reply.id ELSE call.id
      /\ c.known <=> call.known \/ kind = "team"
      /\ kind \notin {"create", "run"} => c.run = call.run
  BY <1>a DEF Heeds
<1>7. CASE kind = "team" /\ ~ call.known
  <2> DEFINE b == [id |-> call.id, plan |-> call.run.plan, team |-> reply.team]
  <2>1. bindings' = Stored(b) /\ c.id = call.id /\ c.known /\ c.run = call.run
    BY <1>5, <1>7 DEF BindingAfter
  <2>2. Replied(kind, reply) /\ reply.id = call.id /\ run' = run /\ reply.team \in Selections
    BY <1>7 DEF Replied, Passed, InContract, Believed, Reads
  <2>3. call.id \in Runs /\ call.run # NoAnswer
    BY <1>6, <1>7 DEF Reads
  <2>4. call.run.plan \in Selections
    BY <1>0, <2>3 DEF CallRecord, Heard
  <2>5. b \in BindingRecord /\ b.id = call.id /\ b.plan = call.run.plan /\ b.team = reply.team
    BY <2>2, <2>3, <2>4 DEF BindingRecord
  <2> HIDE DEF b
  <2>6. From(bindings', b)
    BY <1>0, <2>1, <2>5, StoredProperties
  <2>7. wrong \in Nat /\ (Honestly(kind, reply) \/ wrong' = wrong + 1)
    BY <1>0, <2>2, BridgeAssumption DEF Replied, BridgeTypes
  <2>8. ASSUME wrong' <= 1
        PROVE  run[call.id].state # "absent"
    <3>1. Honestly(kind, reply) \/ wrong = 0
      BY <2>7, <2>8
    <3>2. Honestly(kind, reply) => run[call.id].state # "absent"
      BY <2>2 DEF Honestly, TrueReply
    <3>3. wrong = 0 => run[call.id].state # "absent"
      BY <1>0, <2>3 DEF HeardTrue, RunHeard
    <3> QED BY <3>1, <3>2, <3>3
  <2>9. wrong' <= 1 => call.run.plan = run[call.id].plan
    BY <1>4, <2>1, <2>2, <2>3 DEF HeardTrue, Confirmed
  <2>10. ASSUME wrong' = 0
         PROVE  reply.team = run[call.id].plan
    <3>1. Honestly(kind, reply)
      BY <2>7, <2>10
    <3> QED BY <1>7, <2>2, <3>1 DEF Honestly, TrueReply
  <2>11. wrong' <= 1 => /\ run'[b.id].state # "absent" /\ b.plan = run'[b.id].plan
                        /\ wrong' = 0 => b.team = run'[b.id].plan
    BY <2>2, <2>5, <2>8, <2>9, <2>10
  <2>12. ASSUME NEW x, x = b
         PROVE  LruKept' /\ BindingsHold' /\ \E i \in DOMAIN bindings' : bindings'[i].id = x.id
    <3>1. TrueBinding(x)' /\ x \in BindingRecord /\ From(bindings', x)
      BY <2>5, <2>6, <2>11, <2>12 DEF TrueBinding
    <3>2. LruKept' /\ BindingsHold' /\ Bound(x.id)'
      BY <1>0, <3>1, NewBindings
    <3> QED BY <3>2 DEF Bound
  <2>13. LruKept' /\ BindingsHold' /\ \E i \in DOMAIN bindings' : bindings'[i].id = b.id
    BY <2>12
  <2> QED BY <1>2, <1>3, <1>4, <2>1, <2>5, <2>13 DEF c
<1>8. CASE ~ (kind = "team" /\ ~ call.known)
  <2>1. bindings' = bindings
    BY <1>8 DEF BindingAfter
  <2>2. LruKept' /\ BindingsHold'
    BY <1>0, <2>1, SameBindings
  <2>3. c.known => \E i \in DOMAIN bindings' : bindings'[i].id = c.id
    BY <1>0, <1>5, <1>6, <1>8, <2>1 DEF Bound
  <2> QED BY <1>2, <1>3, <1>4, <2>2, <2>3 DEF c
<1> QED BY <1>7, <1>8

LEMMA ProblemKeeps ==
    ASSUME BridgeInv, Evolves, LruKept', BindingsHold', NEW kind, kind # "ok", Reply(Problem(kind)),
           kind = "mismatch" /\ wrong' = 0 => call.moved /\ call.tool \in {"detail", "quality"}
    PROVE  BridgeInv'
<1>1. call' = NoCall /\ answer'.kind = kind /\ answer'.moved = call.moved /\ answer'.tool = call.tool
  BY DEF Reply, Problem
<1>2. BridgeTypes' /\ CallHolds'
  BY <1>1 DEF BridgeTypes, CallHolds, Evolves
<1>3. AnswersTrue' /\ MismatchExplained'
  BY <1>1 DEF AnswersTrue, MismatchExplained
<1> QED BY <1>2, <1>3 DEF BridgeInv

\* A call that heard everything is answered truly, or its mismatch is explained.
LEMMA OverKeeps ==
    ASSUME BridgeInv, Evolves, LruKept', BindingsHold', call \in CallRecord,
           NEW c \in CallRecord, Over(c), HeardTrue(c, run', wrong'),
           c.tool = call.tool, c.moved = call.moved,
           IF Coherent(c) THEN Reply(Answered(c)) ELSE Reply(Problem("mismatch"))
    PROVE  BridgeInv'
<1>0. wrong' \in Nat /\ NoAnswer.kind = "none"
  BY BridgeAssumption DEF Evolves, NoAnswer
<1>1. CASE Coherent(c)
  <2>1. /\ call' = NoCall /\ answer'.kind = "ok" /\ answer'.tool = c.tool /\ answer'.id = c.id
        /\ answer'.want = c.want
        /\ answer'.plan = (IF c.run.kind = "none" THEN c.want ELSE c.run.plan)
    BY <1>1 DEF Reply, Answered
  <2>a. c.doc.kind = "quality" => (answer'.passed = c.doc.passed)
    BY <1>1 DEF Reply, Answered
  <2>2. c.run # NoAnswer => c.run.kind = "run"
    BY DEF CallRecord, Heard
  <2>3. NoRun \notin Runs
    BY BridgeAssumption
  <2>4. ASSUME wrong' <= 1, c.id \in Runs
        PROVE  /\ c.tool \in {"run", "detail", "artifact"} => answer'.plan = run'[c.id].plan
               /\ c.tool \in {"start", "delegate"} => run'[c.id].plan = c.want
               /\ c.tool = "quality" /\ answer'.passed => run'[c.id].state \in {"completed", "purged"}
    <3>1. Confirmed(c, run')
      BY <2>4 DEF HeardTrue
    <3>2. c.tool \in {"run", "detail", "artifact"} => answer'.plan = run'[c.id].plan
      BY <2>1, <2>2, <3>1 DEF Over, Confirmed
    <3>3. c.tool \in {"start", "delegate"} => run'[c.id].plan = c.want
      BY <3>1 DEF Over, Confirmed
    <3>4. c.tool = "quality" /\ answer'.passed => run'[c.id].state \in {"completed", "purged"}
      BY <1>1, <2>a, <3>1 DEF Over, Confirmed, Coherent
    <3> QED BY <3>2, <3>3, <3>4
  <2>5. AnswersTrue' /\ MismatchExplained'
    BY <2>1, <2>4 DEF AnswersTrue, MismatchExplained
  <2>6. BridgeTypes' /\ CallHolds'
    BY <2>1 DEF BridgeTypes, CallHolds, Evolves
  <2> QED BY <2>5, <2>6 DEF BridgeInv
<1>2. CASE ~ Coherent(c)
  <2>1. ASSUME wrong' = 0
        PROVE  call.moved /\ call.tool \in {"detail", "quality"}
    <3>1. RunHeard(c, run') /\ DocHeard(c, run')
      BY <2>1 DEF HeardTrue
    <3>2. c.doc.kind \in {"detail", "quality"} /\ c.tool = c.doc.kind /\ c.run # NoAnswer
      BY <1>2 DEF Coherent, Over
    <3>3. c.moved
      BY <1>2, <3>1, <3>2 DEF Coherent, RunHeard, DocHeard
    <3> QED BY <3>2, <3>3
  <2>2. Reply(Problem("mismatch"))
    BY <1>2
  <2> QED BY <2>1, <2>2, ProblemKeeps
<1> QED BY <1>1, <1>2

LEMMA TakeKeeps ==
    ASSUME BridgeInv, call # NoCall, Evolves, NEW kind, kind = Head(call.todo), NEW d \in Nat,
           NEW reply, Take(kind, reply, d),
           Replied(kind, reply) \/ (kind \in Passed /\ run' = run /\ wrong' = wrong)
    PROVE  BridgeInv'
<1>0. /\ BridgeTypes /\ LruKept /\ BindingsHold /\ CallHolds /\ call \in CallRecord /\ answer = NoAnswer
  BY DEF BridgeInv, BridgeTypes, CallHolds
<1>1. CASE ~ Believed(kind, reply)
  <2>1. Reply(Problem("mismatch")) /\ bindings' = bindings
    BY <1>1 DEF Take
  <2>2. LruKept' /\ BindingsHold'
    BY <1>0, <2>1, SameBindings
  <2>3. wrong' # 0
    <3> SUFFICES ASSUME wrong' = 0 PROVE FALSE
      OBVIOUS
    <3>1. kind \notin Passed
      BY <1>1 DEF Believed, Passed, Reads
    <3>2. Replied(kind, reply) /\ wrong \in Nat
      BY <1>0, <3>1, BridgeAssumption DEF BridgeTypes
    <3>3. Honestly(kind, reply) /\ wrong = 0 /\ kind \in Reads \cup {"create"}
      BY <3>2 DEF Replied, Honestly
    <3> QED BY <1>0, <1>1, <3>2, <3>3, HonestBelieved
  <2> QED BY <2>1, <2>2, <2>3, ProblemKeeps
<1>2. CASE Believed(kind, reply)
  <2> DEFINE c == Heeded(kind, reply, d)
  <2>1. Continue(c) /\ bindings' = BindingAfter(kind, reply)
    BY <1>2 DEF Take, Heeded
  <2>2. /\ c \in CallRecord /\ (Staged(c) \/ Over(c)) /\ HeardTrue(c, run', wrong')
        /\ LruKept' /\ BindingsHold' /\ (c.known => \E i \in DOMAIN bindings' : bindings'[i].id = c.id)
    BY <1>2, <2>1, HeededHolds
  <2>3. c.tool = call.tool /\ c.moved = call.moved
    BY <1>0, HeededFields DEF Heeds
  <2> HIDE DEF c
  <2>4. CASE ~ Available(c)
    <3>1. Reply(Problem("unavailable"))
      BY <2>1, <2>4 DEF Continue
    <3> QED BY <2>2, <3>1, ProblemKeeps
  <2>5. CASE Available(c) /\ c.todo # <<>>
    <3>1. call' = c /\ answer' = answer
      BY <2>1, <2>5 DEF Continue
    <3>2. Staged(c)
      BY <2>2, <2>5 DEF Over
    <3>3. c \in CallRecord /\ c.todo # <<>> /\ HeardTrue(c, run', wrong')
      BY <2>2, <2>5
    <3>4. call'.known => Bound(call.id)'
      BY <2>2, <3>1 DEF Bound
    <3>5. BridgeTypes'
      BY <3>1, <3>3 DEF BridgeTypes, Evolves
    <3>6. CallHolds'
      <4>1. call'.todo # <<>> /\ Staged(call') /\ HeardTrue(call', run', wrong') /\ answer' = NoAnswer
        BY <1>0, <3>1, <3>2, <3>3
      <4> QED BY <3>4, <4>1 DEF CallHolds
    <3>7. AnswersTrue' /\ MismatchExplained'
      BY <1>0, <3>1 DEF AnswersTrue, MismatchExplained, NoAnswer
    <3> QED BY <2>2, <3>5, <3>6, <3>7 DEF BridgeInv
  <2>6. CASE Available(c) /\ c.todo = <<>>
    <3>1. IF Coherent(c) THEN Reply(Answered(c)) ELSE Reply(Problem("mismatch"))
      BY <2>1, <2>6 DEF Continue
    <3>2. Over(c)
      <4>1. ~ (Passing(c) /\ c.todo = <<>>) => Over(c)
        BY <2>2, <2>6 DEF Staged, Proposing, Starting, Rebuilding, Reading
      <4>2. Passing(c) /\ c.todo = <<>> => Over(c)
        BY DEF Passing, Over, Fresh, NoAnswer
      <4> QED BY <4>1, <4>2
    <3> QED BY <1>0, <2>2, <2>3, <3>1, <3>2, OverKeeps
  <2> QED BY <2>4, <2>5, <2>6
<1> QED BY <1>1, <1>2

----------------------------------------------------------------------------
(* The actions                                                               *)

LEMMA ExchangeKeeps ==
    ASSUME BridgeInv, NEW d \in 0 .. Timeout, Exchange(d)
    PROVE  BridgeInv'
<1> DEFINE kind == Head(call.todo)
<1>0. BridgeTypes /\ LruKept /\ BindingsHold /\ CallHolds
  BY DEF BridgeInv
<1>1. call # NoCall /\ call \in CallRecord /\ d \in Nat
  BY <1>0, BridgeAssumption DEF Exchange, NoCall, BridgeTypes
<1>2. kind \in Reads => call.id \in Runs
  BY <1>0, <1>1, StageFacts DEF CallHolds
<1>3. ASSUME kind = "create", NEW r \in Runs, Created(r), wrong' = wrong,
             Take(kind, RunReply(r, [plan |-> call.want, state |-> "active"]), d)
      PROVE  BridgeInv'
  <2> DEFINE reply == RunReply(r, [plan |-> call.want, state |-> "active"])
  <2>1. reply.id = r /\ reply.plan = call.want /\ reply.state = "active" /\ call.want \in Selections
    BY <1>1 DEF RunReply, CallRecord
  <2>2. Evolves /\ run[r].state = "absent" /\ run'[r] = [state |-> "active", plan |-> call.want]
    BY <1>0, <1>1, <1>3, CreatedEvolves
  <2> HIDE DEF reply
  <2>3. InContract("create", reply) /\ TrueReply("create", reply, run'[reply.id])
    BY <2>1, <2>2 DEF InContract, TrueReply, RunStates
  <2>4. Replied(kind, reply)
    BY <1>3, <2>1, <2>2, <2>3 DEF Replied, Honestly, Reads
  <2>5. Take(kind, reply, d)
    BY <1>3 DEF reply
  <2> HIDE DEF kind
  <2> QED BY <1>1, <2>2, <2>4, <2>5, TakeKeeps DEF kind
<1>4. ASSUME kind \in Reads, Exists(call.id), Take(kind, HonestReply(kind, call.id), d),
             run' = run, wrong' = wrong
      PROVE  BridgeInv'
  <2> DEFINE reply == HonestReply(kind, call.id)
  <2>1. /\ InContract(kind, reply) /\ reply.id = call.id /\ TrueReply(kind, reply, run[call.id])
    BY <1>0, <1>2, <1>4, HonestReplies
  <2>2. Evolves
    BY <1>0, <1>4, StandingRuns
  <2> HIDE DEF reply
  <2>3. Replied(kind, reply)
    BY <1>4, <2>1 DEF Replied, Honestly, Reads
  <2>4. Take(kind, reply, d)
    BY <1>4 DEF reply
  <2> HIDE DEF kind
  <2> QED BY <1>1, <2>2, <2>3, <2>4, TakeKeeps DEF kind
<1>5. ASSUME ~ Exists(call.id), Reply(Problem("unreachable")), bindings' = bindings,
             run' = run, wrong' = wrong
      PROVE  BridgeInv'
  <2>1. Evolves
    BY <1>0, <1>5, StandingRuns
  <2>2. LruKept' /\ BindingsHold'
    BY <1>0, <1>5, <2>1, SameBindings
  <2> QED BY <1>5, <2>1, <2>2, ProblemKeeps
<1>6. ASSUME kind \in {"catalog", "validate", "task"}, Take(kind, NoAnswer, d), run' = run, wrong' = wrong
      PROVE  BridgeInv'
  <2>1. Evolves
    BY <1>0, <1>6, StandingRuns
  <2>2. kind \in Passed
    BY <1>6 DEF Passed
  <2> QED BY <1>1, <1>6, <2>1, <2>2, TakeKeeps
<1>7. ASSUME kind \in Reads \cup {"create"}, wrong < MaxWrong, wrong' = wrong + 1,
             NEW reply \in WrongReplies(kind), Take(kind, reply, d), run' = run
      PROVE  BridgeInv'
  <2>1. Evolves
    BY <1>0, <1>7, StandingRuns
  <2>2. InContract(kind, reply)
    BY <1>7, WrongInContract
  <2>3. Replied(kind, reply)
    BY <1>7, <2>2 DEF Replied
  <2> QED BY <1>1, <1>7, <2>1, <2>3, TakeKeeps
<1> QED BY <1>3, <1>4, <1>5, <1>6, <1>7 DEF Exchange

LEMMA FailureKeeps ==
    ASSUME BridgeInv, ExchangeFails \/ OutOfContract
    PROVE  BridgeInv'
<1>0. BridgeTypes /\ LruKept /\ BindingsHold
  BY DEF BridgeInv
<1>1. call # NoCall /\ Effect /\ bindings' = bindings /\ wrong' = wrong
  BY DEF ExchangeFails, OutOfContract, NoCall
<1>2. call \in CallRecord
  BY <1>0, <1>1 DEF BridgeTypes
<1>3. Evolves
  <2>1. CASE run' = run
    BY <1>0, <1>1, <2>1, StandingRuns
  <2>2. CASE \E r \in Runs : Created(r)
    BY <1>0, <1>1, <1>2, <2>2, CreatedEvolves
  <2> QED BY <1>1, <2>1, <2>2 DEF Effect
<1>4. LruKept' /\ BindingsHold'
  BY <1>0, <1>1, <1>3, SameBindings
<1>5. PICK k \in {"unreachable", "contract"} : Reply(Problem(k))
  BY DEF ExchangeFails, OutOfContract
<1> QED BY <1>3, <1>4, <1>5, ProblemKeeps

\* A run that moves marks the call about it.
LEMMA HarnessKeeps ==
    ASSUME BridgeInv, Harness
    PROVE  BridgeInv'
<1>0. BridgeTypes /\ LruKept /\ BindingsHold /\ CallHolds /\ AnswersTrue /\ MismatchExplained
  BY DEF BridgeInv
<1>1. PICK r \in Runs :
        /\ RunMoves(r) \/ Purge(r)
        /\ call' = IF call.tool # "none" /\ call.id = r THEN [call EXCEPT !.moved = TRUE] ELSE call
  BY DEF Harness
<1>2. bindings' = bindings /\ answer' = answer /\ wrong' = wrong
  BY DEF Harness
<1>3. Evolves /\ \A q \in Runs \ {r} : run'[q] = run[q]
  BY <1>0, <1>1, <1>2, HarnessEvolves
<1>4. LruKept' /\ BindingsHold' /\ \A q : Bound(q)' <=> Bound(q)
  BY <1>0, <1>2, <1>3, SameBindings
<1>5. AnswersTrue' /\ MismatchExplained'
  <2>1. MismatchExplained'
    BY <1>0, <1>2 DEF MismatchExplained
  <2>2. ASSUME answer.kind = "ok", answer.id \in Runs, wrong <= 1
        PROVE  /\ run'[answer.id].plan = run[answer.id].plan
               /\ run[answer.id].state \in {"completed", "purged"} =>
                      run'[answer.id].state \in {"completed", "purged"}
    <3>1. run[r].state # "absent"
      BY <1>1 DEF RunMoves, Purge, Terminal
    <3> QED BY <1>3, <2>2, <3>1 DEF Evolves
  <2>3. AnswersTrue'
    BY <1>0, <1>2, <2>2 DEF AnswersTrue
  <2> QED BY <2>1, <2>3
<1>6. CASE call = NoCall
  <2>1. call' = NoCall
    BY <1>1, <1>6 DEF NoCall
  <2>2. BridgeTypes' /\ CallHolds'
    BY <1>3, <2>1 DEF BridgeTypes, CallHolds, Evolves
  <2> QED BY <1>4, <1>5, <2>2 DEF BridgeInv
<1>7. CASE call # NoCall
  <2>0. /\ call \in CallRecord /\ call.tool # "none" /\ call.todo # <<>> /\ Staged(call)
        /\ HeardTrue(call, run, wrong) /\ (call.known => Bound(call.id)) /\ answer = NoAnswer
    BY <1>0, <1>7 DEF BridgeTypes, CallHolds, CallRecord, Tools, Reads
  <2>1. /\ call' \in CallRecord /\ call'.tool = call.tool /\ call'.id = call.id /\ call'.want = call.want
        /\ call'.todo = call.todo /\ call'.run = call.run /\ call'.doc = call.doc
        /\ call'.known = call.known /\ (call.moved => call'.moved) /\ (call.id = r => call'.moved)
    BY <1>1, <2>0 DEF CallRecord
  <2>2. Staged(call')
    BY <2>0, <2>1 DEF Staged, Passing, Proposing, Starting, Rebuilding, Reading, Fresh
  <2>3. ASSUME call.id \in Runs
        PROVE  /\ run[call.id].state # "absent" \/ call.id # r
               /\ ~ call'.moved => run'[call.id] = run[call.id]
               /\ run'[call.id].plan = run[call.id].plan
               /\ run[call.id].state \in {"completed", "purged"} =>
                      run'[call.id].state \in {"completed", "purged"}
               /\ run[call.id].state # "absent" => run'[call.id].state # "absent"
    <3>1. run[r].state # "absent"
      BY <1>1 DEF RunMoves, Purge, Terminal
    <3> QED BY <1>3, <2>1, <2>3, <3>1 DEF Evolves
  <2>4. HeardTrue(call', run', wrong')
    <3>1. CASE call.id \in Runs
      <4>1. RunHeard(call, run) => RunHeard(call', run')
        BY <2>1, <2>3, <3>1 DEF RunHeard
      <4>2. DocHeard(call, run) => DocHeard(call', run')
        BY <2>1, <2>3, <3>1 DEF DocHeard
      <4>3. Confirmed(call, run) => Confirmed(call', run')
        BY <2>1, <2>3, <3>1 DEF Confirmed
      <4> QED BY <1>2, <2>0, <4>1, <4>2, <4>3 DEF HeardTrue
    <3>2. CASE call.id \notin Runs
      <4>1. call.run = NoAnswer /\ call.doc = NoAnswer /\ (call.tool \in {"start", "delegate"} => ~ call.known)
        BY <2>0, <3>2 DEF Staged, Passing, Proposing, Starting, Rebuilding, Reading, Fresh
      <4>2. NoAnswer.kind = "none"
        BY DEF NoAnswer
      <4> QED BY <2>1, <4>1, <4>2 DEF HeardTrue, RunHeard, DocHeard, Confirmed
    <3> QED BY <3>1, <3>2
  <2>5. call'.known => Bound(call.id)'
    <3>1. call.known => \E i \in DOMAIN bindings : bindings[i].id = call.id
      BY <2>0 DEF Bound
    <3> QED BY <1>2, <2>1, <3>1 DEF Bound
  <2>6. BridgeTypes' /\ CallHolds'
    <3>1. BridgeTypes'
      BY <1>3, <2>1 DEF BridgeTypes, Evolves
    <3>2. call'.todo # <<>> /\ answer' = NoAnswer
      BY <1>2, <2>0, <2>1
    <3> QED BY <2>2, <2>4, <2>5, <3>1, <3>2 DEF CallHolds
  <2> QED BY <1>4, <1>5, <2>6 DEF BridgeInv
<1> QED BY <1>6, <1>7

LEMMA CallToolKeeps ==
    ASSUME BridgeInv, NEW tool \in Tools, NEW r \in Runs \cup {NoRun}, NEW want \in Selections,
           CallTool(tool, r, want)
    PROVE  BridgeInv'
<1>0. BridgeTypes /\ LruKept /\ BindingsHold
  BY DEF BridgeInv
<1> DEFINE todo == Requests(tool, Bound(r))
<1>1. /\ call' = [tool |-> tool, id |-> r, want |-> want, todo |-> todo, known |-> Bound(r),
                  spent |-> 0, moved |-> FALSE, run |-> NoAnswer, doc |-> NoAnswer]
      /\ bindings' = Touched(r) /\ answer' = NoAnswer /\ run' = run /\ wrong' = wrong
      /\ r \in Runs <=> tool \in Reads
  BY DEF CallTool
<1>2. Evolves
  BY <1>0, <1>1, StandingRuns
<1>3. Bound(r) => r \in Runs
  <2> SUFFICES ASSUME Bound(r) PROVE r \in Runs
    OBVIOUS
  <2>1. Binding(r) \in BindingRecord /\ Binding(r).id = r
    BY <1>0, BoundBinding
  <2> QED BY <2>1 DEF BindingRecord
<1>4. LruKept' /\ BindingsHold' /\ (Bound(r) => Bound(r)')
  <2>1. CASE Bound(r)
    <3> DEFINE b == Binding(r)
    <3>1. b \in BindingRecord /\ b.id = r /\ TrueBinding(b) /\ From(bindings', b)
      BY <1>0, <1>1, <2>1, BoundBinding, TouchedProperties
    <3> HIDE DEF b
    <3>2. ASSUME NEW x, x = b
          PROVE  LruKept' /\ BindingsHold' /\ \E i \in DOMAIN bindings' : bindings'[i].id = r
      <4>1. x \in BindingRecord /\ x.id = r /\ TrueBinding(x) /\ From(bindings', x)
        BY <3>1, <3>2
      <4>2. TrueBinding(x)'
        BY <1>0, <1>2, <4>1, TrueBindingKept
      <4>3. LruKept' /\ BindingsHold' /\ Bound(x.id)'
        BY <1>0, <1>2, <4>1, <4>2, NewBindings
      <4> QED BY <4>1, <4>3 DEF Bound
    <3>3. LruKept' /\ BindingsHold' /\ \E i \in DOMAIN bindings' : bindings'[i].id = r
      BY <3>2
    <3> QED BY <3>3 DEF Bound
  <2>2. CASE ~ Bound(r)
    <3>1. bindings' = bindings
      BY <1>1, <2>2 DEF Touched
    <3>2. LruKept' /\ BindingsHold'
      BY <1>0, <1>2, <3>1, SameBindings
    <3> QED BY <2>2, <3>2
  <2> QED BY <2>1, <2>2
<1>5. /\ call'.tool = tool /\ call'.id = r /\ call'.want = want /\ call'.todo = todo
      /\ (call'.known <=> Bound(r)) /\ call'.run = NoAnswer /\ call'.doc = NoAnswer
  BY <1>1
<1>6. Bound(r) \in BOOLEAN
  BY DEF Bound
<1>7. /\ todo \in Seq(Kinds) /\ todo # <<>>
      /\ \/ tool \in {"catalog", "propose"} /\ \A i \in 1 .. Len(todo) : todo[i] \in {"catalog", "validate", "task"}
         \/ tool = "start" /\ todo = <<"create", "team">>
         \/ tool = "delegate" /\ todo = <<"catalog", "validate", "task", "create", "team">>
         \/ tool \in {"run", "team"} /\ ~ Bound(r) /\ todo = <<"run", "team">>
         \/ tool \in {"detail", "quality", "artifact"} /\ ~ Bound(r) /\ todo = <<"run", "team", tool>>
         \/ tool = "run" /\ Bound(r) /\ todo = <<"run">>
         \/ tool \in {"team", "detail", "quality"} /\ Bound(r) /\ todo = <<tool, "run">>
         \/ tool = "artifact" /\ Bound(r) /\ todo = <<"run", "artifact">>
  <2> USE DEF Requests, Kinds, Reads
  <2>1. CASE tool = "catalog"
    <3>1. todo = <<"catalog", "catalog", "catalog", "catalog">>
      BY <2>1
    <3> HIDE DEF todo
    <3> QED BY <2>1, <3>1
  <2>2. CASE tool = "propose"
    <3>1. todo = <<"catalog", "validate", "task">>
      BY <2>2 DEF ProposeRequests
    <3> HIDE DEF todo
    <3> QED BY <2>2, <3>1
  <2>3. CASE tool = "start"
    BY <2>3 DEF StartRequests
  <2>4. CASE tool = "delegate"
    BY <2>4 DEF DelegateRequests
  <2>5. CASE tool = "run"
    <3>1. todo = IF Bound(r) THEN <<"run">> ELSE <<"run", "team">>
      BY <2>5 DEF Rebuild
    <3> HIDE DEF todo
    <3>2. CASE Bound(r)
      <4>1. todo = <<"run">>
        BY <3>1, <3>2
      <4> QED BY <2>5, <3>2, <4>1
    <3>3. CASE ~ Bound(r)
      <4>1. todo = <<"run", "team">>
        BY <3>1, <3>3
      <4> QED BY <2>5, <3>3, <4>1
    <3> QED BY <3>2, <3>3
  <2>6. CASE tool = "team"
    <3>1. todo = IF Bound(r) THEN <<"team", "run">> ELSE <<"run", "team">>
      BY <2>6 DEF Rebuild
    <3> HIDE DEF todo
    <3>2. CASE Bound(r)
      <4>1. todo = <<"team", "run">>
        BY <3>1, <3>2
      <4> QED BY <2>6, <3>2, <4>1
    <3>3. CASE ~ Bound(r)
      <4>1. todo = <<"run", "team">>
        BY <3>1, <3>3
      <4> QED BY <2>6, <3>3, <4>1
    <3> QED BY <3>2, <3>3
  <2>7. CASE tool = "artifact"
    <3>1. todo = IF Bound(r) THEN <<"run", "artifact">> ELSE <<"run", "team", "artifact">>
      BY <2>7 DEF ArtifactRequests
    <3> HIDE DEF todo
    <3>2. CASE Bound(r)
      <4>1. todo = <<"run", "artifact">>
        BY <3>1, <3>2
      <4> QED BY <2>7, <3>2, <4>1
    <3>3. CASE ~ Bound(r)
      <4>1. todo = <<"run", "team", "artifact">>
        BY <3>1, <3>3
      <4> QED BY <2>7, <3>3, <4>1
    <3> QED BY <3>2, <3>3
  <2>8. CASE tool = "detail"
    <3>1. todo = IF Bound(r) THEN <<"detail", "run">> ELSE <<"run", "team", "detail">>
      BY <2>8
    <3> HIDE DEF todo
    <3>2. CASE Bound(r)
      <4>1. todo = <<"detail", "run">>
        BY <3>1, <3>2
      <4> QED BY <2>8, <3>2, <4>1
    <3>3. CASE ~ Bound(r)
      <4>1. todo = <<"run", "team", "detail">>
        BY <3>1, <3>3
      <4> QED BY <2>8, <3>3, <4>1
    <3> QED BY <3>2, <3>3
  <2>9. CASE tool = "quality"
    <3>1. todo = IF Bound(r) THEN <<"quality", "run">> ELSE <<"run", "team", "quality">>
      BY <2>9
    <3> HIDE DEF todo
    <3>2. CASE Bound(r)
      <4>1. todo = <<"quality", "run">>
        BY <3>1, <3>2
      <4> QED BY <2>9, <3>2, <4>1
    <3>3. CASE ~ Bound(r)
      <4>1. todo = <<"run", "team", "quality">>
        BY <3>1, <3>3
      <4> QED BY <2>9, <3>3, <4>1
    <3> QED BY <3>2, <3>3
  <2> QED BY <2>1, <2>2, <2>3, <2>4, <2>5, <2>6, <2>7, <2>8, <2>9 DEF Tools
<1> HIDE DEF todo
<1>8. /\ tool \in {"catalog", "propose", "start", "delegate"} => r = NoRun /\ ~ Bound(r)
      /\ tool \in Reads => r \in Runs
  BY <1>1, <1>3, BridgeAssumption DEF Reads
<1>9. Staged(call')
  BY <1>5, <1>7, <1>8 DEF Staged, Passing, Proposing, Starting, Rebuilding, Reading, Fresh, Reads
<1>10. HeardTrue(call', run', wrong')
  <2>1. call'.tool \in {"start", "delegate"} => ~ call'.known
    BY <1>5, <1>8
  <2>2. call'.doc.kind = "none" /\ call'.run = NoAnswer
    BY <1>5 DEF NoAnswer
  <2> QED BY <2>1, <2>2 DEF HeardTrue, RunHeard, DocHeard, Confirmed
<1>11. call' \in CallRecord
  <2>1. NoAnswer \in Heard /\ NoAnswer \in Docs
    BY DEF Heard, Docs
  <2>2. 0 \in Nat /\ FALSE \in BOOLEAN
    OBVIOUS
  <2> QED BY <1>1, <1>6, <1>7, <2>1, <2>2 DEF CallRecord
<1>12. BridgeTypes'
  BY <1>2, <1>11 DEF BridgeTypes, Evolves
<1>13. CallHolds'
  <2>1. call'.todo # <<>> /\ answer' = NoAnswer
    BY <1>1, <1>5, <1>7
  <2>2. call'.known => Bound(call.id)'
    <3>1. Bound(r) => \E i \in DOMAIN bindings' : bindings'[i].id = r
      BY <1>4 DEF Bound
    <3> QED BY <1>5, <3>1 DEF Bound
  <2> QED BY <1>9, <1>10, <2>1, <2>2 DEF CallHolds
<1>14. AnswersTrue' /\ MismatchExplained'
  BY <1>1 DEF AnswersTrue, MismatchExplained, NoAnswer
<1> QED BY <1>4, <1>12, <1>13, <1>14 DEF BridgeInv

LEMMA BridgeInvariant == Spec => []BridgeInv
<1>1. Init => BridgeInv
  <2> SUFFICES ASSUME Init PROVE BridgeInv
    OBVIOUS
  <2>1. (CHOOSE s \in Selections : TRUE) \in Selections
    BY BridgeAssumption
  <2>2. Absent \in [state : RunStates, plan : Selections]
    BY <2>1 DEF Absent, RunStates
  <2>3. 0 \in 0 .. MaxWrong /\ 0 <= MaxRunBindings
    BY BridgeAssumption
  <2>4. BridgeTypes
    BY <2>2, <2>3 DEF Init, BridgeTypes
  <2>5. LruKept /\ BindingsHold
    BY <2>3 DEF Init, LruKept, BindingsHold
  <2>6. CallHolds /\ AnswersTrue /\ MismatchExplained
    BY DEF Init, CallHolds, AnswersTrue, MismatchExplained, NoAnswer
  <2> QED BY <2>4, <2>5, <2>6 DEF BridgeInv
<1>2. BridgeInv /\ [Next]_vars => BridgeInv'
  <2> SUFFICES ASSUME BridgeInv, [Next]_vars PROVE BridgeInv'
    OBVIOUS
  <2>0. BridgeTypes /\ LruKept /\ BindingsHold /\ CallHolds /\ AnswersTrue /\ MismatchExplained
    BY DEF BridgeInv
  <2>1. CASE Harness
    BY <2>1, HarnessKeeps
  <2>2. CASE Initialize \/ UNCHANGED vars
    <3>1. /\ run' = run /\ bindings' = bindings /\ call' = call /\ answer' = answer /\ wrong' = wrong
      BY <2>2 DEF Initialize, vars
    <3>2. BridgeTypes' /\ LruKept'
      BY <2>0, <3>1 DEF BridgeTypes, LruKept
    <3>3. BindingsHold' /\ CallHolds'
      BY <2>0, <3>1 DEF BindingsHold, TrueBinding, CallHolds, Bound
    <3>4. AnswersTrue' /\ MismatchExplained'
      BY <2>0, <3>1 DEF AnswersTrue, MismatchExplained
    <3> QED BY <3>2, <3>3, <3>4 DEF BridgeInv
  <2>3. CASE Refuse
    <3>1. /\ run' = run /\ bindings' = bindings /\ call' = call /\ wrong' = wrong
          /\ answer'.kind = "refused" /\ call.tool = "none"
      BY <2>3 DEF Refuse
    <3>2. BridgeTypes' /\ LruKept'
      BY <2>0, <3>1 DEF BridgeTypes, LruKept
    <3>3. BindingsHold'
      BY <2>0, <3>1 DEF BindingsHold, TrueBinding
    <3>4. CallHolds'
      <4>1. call = NoCall
        BY <2>0, <3>1 DEF BridgeTypes, CallRecord, Tools, Reads
      <4> QED BY <3>1, <4>1 DEF CallHolds
    <3>5. AnswersTrue' /\ MismatchExplained'
      BY <3>1 DEF AnswersTrue, MismatchExplained
    <3> QED BY <3>2, <3>3, <3>4, <3>5 DEF BridgeInv
  <2>4. CASE Serve
    BY <2>4, ExchangeKeeps, FailureKeeps DEF Serve
  <2>5. CASE \E tool \in Tools, r \in Runs \cup {NoRun}, want \in Selections : CallTool(tool, r, want)
    BY <2>5, CallToolKeeps
  <2> QED BY <2>1, <2>2, <2>3, <2>4, <2>5 DEF Next
<1> QED BY <1>1, <1>2, PTL DEF Spec

\* codex_harness_mcp.py: the LRU of run bindings stays within MAX_RUN_BINDINGS
\* with one binding for a run, and one wrong reply, at any point of any call,
\* never makes the adapter bind a plan the Harness did not freeze for the run.
THEOREM BindingsStayTrue == Spec => []BindingsTrue
<1>1. BridgeInv => BindingsTrue
  <2> SUFFICES ASSUME BridgeInv PROVE BindingsTrue
    OBVIOUS
  <2>1. LruKept /\ BindingsHold /\ DOMAIN bindings = 1 .. Len(bindings)
    BY DEF BridgeInv, LruKept
  <2> QED BY <2>1 DEF BindingsTrue, LruKept, BindingsHold, TrueBinding
<1> QED BY <1>1, BridgeInvariant, PTL

\* codex_harness_mcp.py: what the adapter answers about a run is true of the
\* run, whatever happens between two exchanges and whatever one wrong reply
\* says.
THEOREM AnswersStayTrue == Spec => []AnswersTrue
<1>1. BridgeInv => AnswersTrue
  BY DEF BridgeInv
<1> QED BY <1>1, BridgeInvariant, PTL

\* codex_harness_mcp.py: a correct Harness is accused of a mismatch only when
\* the run moved between the two exchanges of a detail or quality call.
THEOREM MismatchesAreExplained == Spec => []MismatchExplained
<1>1. BridgeInv => MismatchExplained
  BY DEF BridgeInv
<1> QED BY <1>1, BridgeInvariant, PTL
====
