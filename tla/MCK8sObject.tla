---------------------------- MODULE MCK8sObject ----------------------------
(* Two fields with two values each.  Every definition that a k8s task may  *)
(* have: one field, both, or the other value of one.                       *)
EXTENDS K8sObject

MCFields == {"image", "replicas"}

MCVals == {1, 2}

Def(i, r) == [f \in Fields |-> IF f = "image" THEN i ELSE r]

Defs == {Def(1, Unset), Def(2, 1)}

MCFound == {<<Def(1, 1), NoLast>>, <<Def(1, 1), Def(1, 1)>>, <<Def(2, 2), Def(1, 1)>>,
            <<Def(2, 1), Def(2, 1)>>}

Nothing == Def(Unset, Unset)

K8s(impl, state, apply, force, wait, check, dry, def) ==
    [op |-> "k8s", impl |-> impl, state |-> state, apply |-> apply, force |-> force,
     wait |-> wait, check |-> check, dry |-> dry, def |-> def, expect |-> Nothing]

\* A check does not wait; only a check tells whether the server has a dry run.
Modes == {m \in [wait : BOOLEAN, check : BOOLEAN, dry : BOOLEAN] :
              IF m.check THEN ~m.wait ELSE m.dry}

Ways == {<<"present", TRUE, FALSE>>, <<"present", FALSE, TRUE>>,
         <<"patched", FALSE, FALSE>>, <<"present", FALSE, FALSE>>, <<"absent", FALSE, FALSE>>}

MCParams ==
    {K8s(i, w[1], w[2], w[3], m.wait, m.check, m.dry, d) :
        i \in {"service", "mixin"}, w \in Ways, m \in Modes, d \in Defs}
    \cup {[K8s("service", "present", FALSE, FALSE, m.wait, m.check, m.dry, Def(Unset, 2)) EXCEPT
              !.op = "scale", !.expect = e] : m \in Modes, e \in {Nothing, Def(Unset, 1)}}
    \cup {[K8s("service", "present", FALSE, FALSE, m.wait, m.check, m.dry, Def(Unset, 2)) EXCEPT
              !.op = "json_patch"] : m \in Modes}
    \cup {[K8s("service", "present", FALSE, FALSE, w, FALSE, TRUE, Nothing) EXCEPT !.op = "info"] :
              w \in BOOLEAN}

(* No task patches by force: the two implementations of k8s agree.         *)
ASSUME MCAgree == ImplementationsAgree

=============================================================================
