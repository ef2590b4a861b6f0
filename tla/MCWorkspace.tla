---------------------------- MODULE MCWorkspace ----------------------------
(* Instances of Workspace for TLC. *)
EXTENDS Workspace, TLC

CONSTANTS fa, fb, fe, outer, inner, old, new, other, upgrade

(* fa and fe exist at first; fb is to be created in a new directory, inner, *)
(* of another one, outer.                                                   *)
MCAbove == (fa :> <<>>) @@ (fe :> <<>>) @@ (fb :> <<outer, inner>>) @@ (outer :> <<>>) @@ (inner :> <<outer>>)
MCContent == (fa :> old) @@ (fe :> old) @@ (fb :> Missing)

Create(f, c) == [path |-> f, op |-> "create", before |-> Missing, after |-> c]
Update(f, c) == [path |-> f, op |-> "update", before |-> old, after |-> c]
Delete(f) == [path |-> f, op |-> "delete", before |-> old, after |-> Missing]
Expect(f, c) == [path |-> f, op |-> "assert", before |-> c, after |-> Missing]

(* Two plans built from the same state: one that guards outer, one that     *)
(* does not and also creates fb.                                            *)
Guarded == [changes |-> <<Update(fa, new), Create(fb, new), Delete(fe)>>, guards |-> {outer}, members |-> {}]
Unguarded == [changes |-> <<Expect(fa, old), Create(fb, other), Update(fe, other)>>, guards |-> {}, members |-> {}]

(* A plan built from what Guarded leaves. *)
Following == [changes |-> <<Expect(fa, new), Create(fe, other)>>, guards |-> {outer}, members |-> {outer, inner, fb}]

MCPlans == {Guarded, Unguarded, Following}

Call(plan, gate) == [plan |-> plan, gate |-> gate]
MCCalls == {Call(Guarded, upgrade), Call(Guarded, NoGate), Call(Unguarded, upgrade), Call(Following, NoGate)}
=============================================================================
