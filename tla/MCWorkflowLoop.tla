--------------------------- MODULE MCWorkflowLoop ---------------------------
(***************************************************************************)
(* Instances of WorkflowLoop for TLC: small specs that exercise every step *)
(* kind, signals that collide in name, and the values the predicates tell  *)
(* apart.                                                                  *)
(***************************************************************************)
EXTENDS WorkflowLoop

\* A and B in a row; B reads A's result and the run returns B's.
Linear == <<Activity("a", "A", From(Input), 2),
            Activity("b", "B", From("a"), 3),
            Complete(From("b"), 4)>>

\* A branch on A's result; both branches bind the same id.
Branching == <<Activity("a", "A", From(Input), 2),
               Conditional("a", "gt", 0, 3, 4, 5),
               Activity("x", "B", From("a"), 5),
               Activity("x", "C", Literal(7), 5),
               Complete(From("x"), 6)>>

\* Two waits for one signal name around an activity.
Approvals == <<WaitSignal("first", "approve", "decision", 2),
               Activity("a", "A", From("decision"), 3),
               WaitSignal("second", "approve", Nothing, 4),
               Complete(From("second"), 5)>>

\* A wait behind a branch on an earlier signal of another name.
Guarded == <<WaitSignal("go", "start", Nothing, 2),
             Conditional("go", "eq", 1, 3, 4, 4),
             WaitSignal("ok", "approve", Nothing, 4),
             Complete(From("go"), 5)>>

\* A predicate that asks whether a LATER step has been bound.
ForwardReference == <<Conditional("a", "exists", 0, 2, 3, 3),
                      Complete(Literal(9), 3),
                      Activity("a", "A", Literal(1), 4),
                      Activity("b", "B", Literal(2), 5),
                      Complete(From("b"), 6)>>

\* A signal alias equal to the id of a later activity.
AliasCollision == <<WaitSignal("w", "approve", "a", 2),
                    Activity("a", "A", Literal(1), 3),
                    Complete(From("a"), 4)>>

\* A hopeful comparison of something that may not be a number.
Comparing == <<Activity("a", "A", Literal(1), 2),
               Conditional("a", "lt", 1, 3, 4, 4),
               Complete(From("a"), 4),
               Complete(Literal(5), 5)>>

PlainSpecs   == {Linear, Branching}
OneSpec      == {Linear}
ForwardSpecs == {ForwardReference}
AliasSpecs   == {AliasCollision}
HostileSpecs == {Linear, Comparing}
OtherFirmware == {NoSpec, Comparing}
LiveSpecs    == {Branching, Approvals, Guarded}

Approve(n) == [name |-> "approve", value |-> n, no |-> n]
Start(n)   == [name |-> "start", value |-> n, no |-> n]

OneApproval  == {Approve(1)}
TwoApprovals == {Approve(1), Approve(2)}
SomeSignals  == {Approve(1), Approve(2), Start(1)}

\* The specs of the runs the theorems speak of are such as they ask for, and the
\* two divergences are specs that are not.
ASSUME SpecsAreMeant ==
  /\ \A s \in PlainSpecs \cup LiveSpecs : WellScoped(s) /\ WellNamed(s) /\ SoleIds(s)
  /\ \A s \in ForwardSpecs : ~ WellScoped(s)
  /\ \A s \in AliasSpecs : ~ WellNamed(s)
=============================================================================
