-------------------------- MODULE MCWorkflowRunner --------------------------
(* Small packs for TLC: three branches and a step that joins them, and a    *)
(* step with two sinks behind it.                                          *)
EXTENDS WorkflowRunner, TLC

Join   == "a" :> {} @@ "b" :> {} @@ "c" :> {} @@ "d" :> {"a", "b", "c"}
Order4 == <<"a", "b", "c", "d">>

\* What a recovery may find under the name of the Pack: the frozen plan itself;
\* a Pack with an edge less, a new step, another agent for "d" and a gate on "b";
\* no Pack.
EditedPack == [order |-> <<"a", "b", "c", "d", "e">>,
               needs |-> "a" :> {} @@ "b" :> {} @@ "c" :> {} @@ "d" :> {"a", "b"} @@ "e" :> {"c"},
               alien |-> {<<"a", "d">>}, gates |-> {"b"}]
NoPack     == [order |-> << >>, needs |-> << >>, alien |-> {}, gates |-> {}]

JoinEditions == {Frozen, EditedPack, NoPack}
SameEdition  == {Frozen}

Fork   == "a" :> {} @@ "b" :> {"a"} @@ "c" :> {"a"}
Order3 == <<"a", "b", "c">>
=============================================================================
