----------------------------- MODULE MCCookbook -----------------------------
(***************************************************************************)
(* The demonstrations of cookbooks/01 to 04 and of mwf_sole_worker, and a  *)
(* spec whose wait stands inside a branch.  Cookbook 2 is here without the *)
(* classification its branch depends on, one more activity like its reply. *)
(***************************************************************************)
EXTENDS Cookbook

Echo == [kind |-> "activity", name |-> "echo"]
Chat(name) == [kind |-> "activity", name |-> name]
WaitFor(name) == [kind |-> "wait_signal", signal |-> name]
Branch(yes, no) == [kind |-> "conditional", true_steps |-> yes, false_steps |-> no]
InSequence(steps) == [kind |-> "sequence", steps |-> steps]

Trigger(input) == [mode |-> "trigger", input |-> input, signal |-> "none"]
Approver(input) == [mode |-> "hitl", input |-> input, signal |-> "approve"]

Demo(program, steps, clients, judge, expected) ==
  [program |-> program, steps |-> steps, clients |-> clients, errexit |-> judge = "pair",
   judge |-> judge, expected |-> expected, max_completions |-> Len(clients)]

Once == <<"SCHEDULE", "COMPLETE">>
Twice == <<"SCHEDULE", "SCHEDULE", "COMPLETE">>

Reply == Branch(<<Chat("ai.chat")>>, <<Chat("ai.chat")>>)
SizeBranch == Branch(<<Echo>>, <<Echo>>)
MaybeWait == Branch(<<Echo, WaitFor("approve")>>, <<Echo>>)
Wrapped == InSequence(<<MaybeWait>>)

Hello == Demo("cookbook", <<Echo>>, <<Trigger("big")>>, "first", Once)
AiWorkflow == Demo("cookbook", <<Reply>>, <<Trigger("big"), Trigger("small")>>, "none", Once)
Reproducibility == Demo("cookbook", <<Echo, SizeBranch>>,
                        <<Trigger("big"), Trigger("big"), Trigger("small")>>, "pair", Twice)
HumanInTheLoop == Demo("cookbook", <<Echo, WaitFor("approve"), Echo>>, <<Approver("big")>>,
                       "none", Twice)
NestedWait == Demo("cookbook", <<Wrapped>>, <<Approver("big")>>, "none", Once)
Sole == Demo("sole", <<Echo>>, <<Trigger("big")>>, "first", Once)

AllSteps == {Echo, Chat("ai.chat"), WaitFor("approve"),
             Reply, SizeBranch, MaybeWait, Wrapped}
AllDemos == {Hello, AiWorkflow, Reproducibility, HumanInTheLoop, NestedWait, Sole}
=============================================================================
